---------------------------- MODULE Spec2Model ----------------------------
(***************************************************************************)
(* A model of image_editor/core/file_manager.py (class FileManager): the   *)
(* extension scanner, the file sorter with its unique-name resolver, the   *)
(* duplicate detector and the empty-directory pruner; and of               *)
(* image_editor/core/image_processor.py (class ImageProcessor): the batch  *)
(* transcoder and the frame extractor.  All act on a file system of        *)
(* directories and regular files.                                          *)
(*                                                                         *)
(* A file name is a sequence of one-character strings, a path a sequence   *)
(* of names below the top of the modelled tree (<<>>); paths are kept      *)
(* normalised, so os.path.join is Append and os.path.abspath changes       *)
(* nothing that a comparison of two such paths could see.                  *)
(*                                                                         *)
(* Each call is a sequence of steps: the code before the loop, one step    *)
(* per turn of the loop, the return.  The operating system may fail the    *)
(* calls made inside a try block (open, shutil.move, os.remove,            *)
(* os.listdir, os.rmdir, Image.save of a frame); every directory can be    *)
(* listed by os.walk, and there are no symbolic links.  pre, hist, prev    *)
(* and the fields `matched` and `indexed` record what happened; the code   *)
(* does not read them.                                                     *)
(***************************************************************************)
EXTENDS Integers, Sequences, FiniteSets, TLC

VARIABLES
    dirs,        \* the directories that exist: a set of paths
    files,       \* the regular files that exist: path -> [content]
    scandir_rev, \* the order in which the platform lists a directory
    pc,          \* "idle", or the operation whose loop is running
    frame,       \* the local variables of the running call
    ret,         \* what the last finished call returned (or that it raised)
    prev,        \* what the call before that returned
    pre,         \* the running/last call and the file system it started from
    hist,        \* what the running/last call did, in order: progress events,
                 \* moves, skips, removals
    calls,       \* the number of calls started
    faults       \* the number of operating-system failures so far

vars == <<dirs, files, scandir_rev, pc, frame, ret, prev, pre, hist, calls, faults>>

---------------------------------------------------------------------------
(* Bounds of the model.                                                    *)

MaxFiles == 3      \* regular files in the initial tree
MaxContent == 2    \* distinct file contents
MaxCalls == 2      \* calls made in a row
MaxFaults == 1     \* move / delete / rmdir failures injected

(* The digest space of hashlib.md5, scaled down with the contents.         *)
HashSpace == 2

---------------------------------------------------------------------------
(* Strings.                                                                *)

Str_jpg == <<"j", "p", "g">>
Str_no_extension == <<"n", "o", "_", "e", "x", "t", "e", "n", "s", "i", "o", "n">>
Str_files == <<"_", "f", "i", "l", "e", "s">>

(* The code points of the characters the model uses (ASCII).               *)
Ord == [c \in {".", "(", ")", "0", "1", "2", "3", "4", "5", "6", "7", "8", "9",
               "A", "B", "F", "G", "I", "J", "P", "T", "X", "_",
               "a", "b", "d", "e", "f", "g", "i", "j", "l", "m", "n", "o", "p", "r",
               "s", "t", "x"} |->
          CASE c = "." -> 46 [] c = "(" -> 40 [] c = ")" -> 41
            [] c = "0" -> 48 [] c = "1" -> 49 [] c = "2" -> 50 [] c = "3" -> 51
            [] c = "4" -> 52 [] c = "5" -> 53 [] c = "6" -> 54 [] c = "7" -> 55
            [] c = "8" -> 56 [] c = "9" -> 57
            [] c = "A" -> 65 [] c = "B" -> 66 [] c = "F" -> 70 [] c = "G" -> 71
            [] c = "I" -> 73 [] c = "J" -> 74 [] c = "P" -> 80 [] c = "T" -> 84
            [] c = "X" -> 88 [] c = "_" -> 95 [] c = "d" -> 100 [] c = "m" -> 109
            [] c = "r" -> 114
            [] c = "a" -> 97 [] c = "b" -> 98 [] c = "e" -> 101 [] c = "f" -> 102
            [] c = "g" -> 103 [] c = "i" -> 105 [] c = "j" -> 106 [] c = "l" -> 108
            [] c = "n" -> 110 [] c = "o" -> 111 [] c = "p" -> 112 [] c = "s" -> 115
            [] c = "t" -> 116 [] c = "x" -> 120]

(* str.lower() on one character, and on a string.                          *)
LowerChar(c) ==
    CASE c = "A" -> "a" [] c = "B" -> "b" [] c = "F" -> "f" [] c = "G" -> "g"
      [] c = "I" -> "i" [] c = "J" -> "j" [] c = "P" -> "p" [] c = "T" -> "t"
      [] c = "X" -> "x" [] OTHER -> c

Lower(s) == [i \in 1..Len(s) |-> LowerChar(s[i])]

(* str.lstrip('.'): drop every leading dot.                                *)
RECURSIVE LStripDots(_)
LStripDots(s) ==
    IF s # <<>> /\ Head(s) = "." THEN LStripDots(Tail(s)) ELSE s

(* str(n) for n >= 0: the decimal digits.                                  *)
Digit == <<"0", "1", "2", "3", "4", "5", "6", "7", "8", "9">>

RECURSIVE IntToStr(_)
IntToStr(n) ==
    IF n < 10 THEN <<Digit[n + 1]>>
    ELSE IntToStr(n \div 10) \o <<Digit[(n % 10) + 1]>>

(* s < t in Python's string order (lexicographic by code point).           *)
RECURSIVE StrLess(_, _)
StrLess(s, t) ==
    IF t = <<>> THEN FALSE
    ELSE IF s = <<>> THEN TRUE
    ELSE IF Head(s) # Head(t) THEN Ord[Head(s)] < Ord[Head(t)]
    ELSE StrLess(Tail(s), Tail(t))

(* os.path.splitext on a file name (no separator in it): the extension     *)
(* starts at the last dot, unless only dots precede that dot.              *)
SplitExt(name) ==
    LET dots == {i \in 1..Len(name) : name[i] = "."}
        dotIndex == IF dots = {} THEN 0 ELSE CHOOSE i \in dots : \A j \in dots : j <= i
    IN  IF dotIndex > 0 /\ \E j \in 1..(dotIndex - 1) : name[j] # "."
        THEN <<SubSeq(name, 1, dotIndex - 1), SubSeq(name, dotIndex, Len(name))>>
        ELSE <<name, <<>>>>

FileExtensionKeepsDot(file_name) == Lower(SplitExt(file_name)[2])

(* The extension as scan_extensions and sort_files normalise it.           *)
FileExtension(file_name) == Lower(LStripDots(SplitExt(file_name)[2]))

---------------------------------------------------------------------------
(* The file system.                                                        *)

Parent(p) == SubSeq(p, 1, Len(p) - 1)
BaseName(p) == p[Len(p)]
Join(d, name) == Append(d, name)

IsPrefix(d, p) == Len(d) <= Len(p) /\ SubSeq(p, 1, Len(d)) = d
Under(d, p) == Len(d) < Len(p) /\ IsPrefix(d, p)

IsDir(D, p) == p \in D
IsFile(F, p) == p \in DOMAIN F
Exists(D, F, p) == IsDir(D, p) \/ IsFile(F, p)

FilesUnder(F, d) == {p \in DOMAIN F : Under(d, p)}
DirsUnder(D, d) == {p \in D : Under(d, p)}

(* The names of the entries of directory d, as os.listdir returns them.    *)
Entries(D, F, d) == {BaseName(p) : p \in {q \in D \cup DOMAIN F : q # <<>> /\ Parent(q) = d}}

(* A set of names in the platform's listing order.                         *)
RECURSIVE Listed(_, _)
Listed(S, rev) ==
    IF S = {} THEN <<>>
    ELSE LET first == IF rev THEN CHOOSE x \in S : \A y \in S : y = x \/ StrLess(y, x)
                      ELSE CHOOSE x \in S : \A y \in S : y = x \/ StrLess(x, y)
         IN  <<first>> \o Listed(S \ {first}, rev)

FileNames(D, F, d) == {n \in Entries(D, F, d) : IsFile(F, Join(d, n))}
DirNames(D, F, d) == {n \in Entries(D, F, d) : IsDir(D, Join(d, n))}

RemoveFile(F, p) == [q \in DOMAIN F \ {p} |-> F[q]]

---------------------------------------------------------------------------
(* os.walk.  The walk lists a directory when it reaches it; the operations *)
(* below change nothing in a directory that is still to be listed (a move  *)
(* happens after the whole walk, a removed file was listed before, and a   *)
(* removed directory has been walked), so each walk is taken at once.      *)

RECURSIVE WalkTopDown(_, _, _, _), WalkEach(_, _, _, _, _, _)

(* os.walk(top): the triples (root, dirs, files), a directory before its   *)
(* subdirectories; nothing when top is not a directory.                    *)
WalkTopDown(D, F, top, rev) ==
    IF ~IsDir(D, top) THEN <<>>
    ELSE LET dirnames == Listed(DirNames(D, F, top), rev)
             filenames == Listed(FileNames(D, F, top), rev)
         IN  <<[root |-> top, dirs |-> dirnames, files |-> filenames]>>
             \o WalkEach(D, F, top, dirnames, rev, TRUE)

RECURSIVE WalkBottomUp(_, _, _, _)

(* os.walk(top, topdown=False): a directory after its subdirectories.      *)
WalkBottomUp(D, F, top, rev) ==
    IF ~IsDir(D, top) THEN <<>>
    ELSE LET dirnames == Listed(DirNames(D, F, top), rev)
             filenames == Listed(FileNames(D, F, top), rev)
         IN  WalkEach(D, F, top, dirnames, rev, FALSE)
             \o <<[root |-> top, dirs |-> dirnames, files |-> filenames]>>

WalkEach(D, F, top, dirnames, rev, topdown) ==
    IF dirnames = <<>> THEN <<>>
    ELSE (IF topdown THEN WalkTopDown(D, F, Join(top, Head(dirnames)), rev)
                     ELSE WalkBottomUp(D, F, Join(top, Head(dirnames)), rev))
         \o WalkEach(D, F, top, Tail(dirnames), rev, topdown)

(* The (root, file name) pairs of a walk, in the order the nested loops    *)
(* `for root, _, files in os.walk(..): for name in files:` visit them.     *)
RECURSIVE WalkedFiles(_)
WalkedFiles(walk) ==
    IF walk = <<>> THEN <<>>
    ELSE [k \in 1..Len(Head(walk).files) |->
             [root |-> Head(walk).root, name |-> Head(walk).files[k]]]
         \o WalkedFiles(Tail(walk))

---------------------------------------------------------------------------
(* FileManager._get_unique_filename                                        *)

RECURSIVE ProbeUnique(_, _, _, _, _, _)
ProbeUnique(D, F, destination_folder, base_name, extension, counter) ==
    LET new_filename == base_name \o <<"(">> \o IntToStr(counter) \o <<")">> \o extension
    IN  IF Exists(D, F, Join(destination_folder, new_filename))
        THEN ProbeUnique(D, F, destination_folder, base_name, extension, counter + 1)
        ELSE new_filename

GetUniqueFilenameNoProbe(D, F, destination_folder, original_filename) ==
    original_filename

GetUniqueFilename(D, F, destination_folder, original_filename) ==
    LET base_name == SplitExt(original_filename)[1]
        extension == SplitExt(original_filename)[2]
    IN  IF Exists(D, F, Join(destination_folder, original_filename))
        THEN ProbeUnique(D, F, destination_folder, base_name, extension, 1)
        ELSE original_filename

---------------------------------------------------------------------------
(* Library calls on the file system.                                       *)

(* The non-empty prefixes of a path: the directories os.makedirs makes.    *)
Prefixes(p) == {SubSeq(p, 1, k) : k \in 1..Len(p)}

(* os.makedirs(p, exist_ok=True) raises when p or one of its parents is a  *)
(* regular file.                                                           *)
MakeDirsRaises(D, F, p) == \E q \in Prefixes(p) : IsFile(F, q)
MakeDirs(D, p) == D \cup Prefixes(p)

(* shutil.move(src, dst) of a regular file: into dst when dst is a         *)
(* directory, else onto dst (os.rename replaces an existing file).  When   *)
(* os.rename is refused it copies src to the target and removes src.       *)
MoveTarget(D, src, dst) == IF IsDir(D, dst) THEN Join(dst, BaseName(src)) ELSE dst

MoveRaises(D, F, src, dst) ==
    \/ ~IsFile(F, src)
    \/ IsDir(D, dst) /\ Exists(D, F, Join(dst, BaseName(src)))
    \/ ~IsDir(D, Parent(MoveTarget(D, src, dst)))

(* What shutil.move leaves when it raises after its copy: the source, and  *)
(* the copy at the target.                                                 *)
CopyFile(D, F, src, dst) ==
    LET real_dst == MoveTarget(D, src, dst)
    IN  [q \in DOMAIN F \cup {real_dst} |-> IF q = real_dst THEN F[src] ELSE F[q]]

MoveFile(D, F, src, dst) ==
    LET real_dst == MoveTarget(D, src, dst)
    IN  [q \in (DOMAIN F \ {src}) \cup {real_dst} |->
            IF q = real_dst THEN F[src] ELSE F[q]]

---------------------------------------------------------------------------
(* FileManager.sort_files                                                  *)

DestinationFolderName(selected_ext) ==
    IF selected_ext = Str_no_extension THEN Str_no_extension
    ELSE selected_ext \o Str_files

(* The test of lines 65-66 on one file name.                               *)
Selected(selected_ext, file_name) ==
    LET file_extension == FileExtension(file_name)
    IN  \/ selected_ext = Str_no_extension /\ file_extension = <<>>
        \/ selected_ext # Str_no_extension /\ file_extension = selected_ext

(* Lines 57-59: the roots the scan skips.                                  *)
SkipRootNever(root, destination_folder) == FALSE

SkipRoot(root, destination_folder) == root = destination_folder

(* Lines 56-67: the list files_to_move_info.                               *)
FilesToMoveInfo(D, F, source_dir, selected_ext, destination_folder, rev) ==
    LET all == WalkedFiles(WalkTopDown(D, F, source_dir, rev))
    IN  SelectSeq(all, LAMBDA e : /\ ~SkipRoot(e.root, destination_folder)
                                  /\ Selected(selected_ext, e.name))

---------------------------------------------------------------------------
(* The trees the calls start from.                                         *)

Top == <<>>
Dir_s == <<<<"s">>>>
Dir_e == <<<<"s">>, <<"e">>>>
Dir_jpg_files == <<Str_jpg \o Str_files>>
Dir_in == <<Str_jpg \o Str_files, <<"i", "n">>>>

Name_a_jpg == <<"a", ".", "j", "p", "g">>
Name_b_JPG == <<"b", ".", "J", "P", "G">>
Name_a1_jpg == <<"a", "(", "1", ")", ".", "j", "p", "g">>

CandidateFiles ==
    { Join(Top, Name_a_jpg),
      Join(Dir_s, Name_a_jpg),
      Join(Dir_s, Name_b_JPG),
      Join(Dir_s, Str_no_extension),
      Join(Dir_jpg_files, Name_a_jpg),
      Join(Dir_jpg_files, Name_a1_jpg),
      Join(Dir_in, Name_a_jpg) }

CandidateDirs == {Dir_s, Dir_e, Dir_jpg_files, Dir_in}

SourceDirs == {Top, Dir_s}
SelectedExts == {Str_jpg, Str_no_extension}

(* progress_callback: a sink (TRUE), or None (FALSE), the default.         *)
ProgressCallbacks == BOOLEAN

(* sort_files line 75 and batch_process_images line 226: the call of the   *)
(* sink in turn i of the loop, progress_callback(i + 1, total, name).      *)
ProgressEventFromZero(i, total, label) ==
    [kind |-> "progress", current |-> i, total |-> total, label |-> label]

ProgressEvent(i, total, label) ==
    [kind |-> "progress", current |-> i + 1, total |-> total, label |-> label]

NoCall == [op |-> "none"]

(* A tree: the chosen files with their contents, the directories that hold *)
(* them and the chosen further (empty) directories.                        *)
InitTree(paths, content, more_dirs) ==
    /\ files = [p \in paths |-> [content |-> content[p]]]
    /\ dirs = {Top} \cup UNION {Prefixes(Parent(p)) : p \in paths}
                    \cup UNION {Prefixes(d) : d \in more_dirs}

InitControl ==
    /\ scandir_rev \in BOOLEAN
    /\ pc = "idle"
    /\ frame = NoCall
    /\ ret = NoCall
    /\ prev = NoCall
    /\ pre = [call |-> NoCall, dirs |-> dirs, files |-> files]
    /\ hist = <<>>
    /\ calls = 0
    /\ faults = 0

InitSort ==
    /\ \E paths \in SUBSET CandidateFiles :
          /\ Cardinality(paths) <= MaxFiles
          /\ InitTree(paths, [p \in paths |-> 1], {})
    /\ InitControl

---------------------------------------------------------------------------
(* sort_files, lines 48-67: the destination folder and the scan.  A call   *)
(* made after another sort repeats it: the same directory and extension;   *)
(* one made after a scan sorts the directory scanned by one of the values  *)
(* the scan returned, as the extension menu of the window offers them.     *)
SortCall(source_dir, selected_ext, progress_callback) ==
    LET destination_folder == Join(source_dir, DestinationFolderName(selected_ext))
        call == [op |-> "sort_files", source_dir |-> source_dir,
                 selected_ext |-> selected_ext]
    IN  /\ pc = "idle"
        /\ calls < MaxCalls
        /\ calls > 0 =>
              IF pre.call.op = "scan_extensions"
              THEN /\ source_dir = pre.call.source_dir
                   /\ \E k \in 1..Len(ret.extensions) : selected_ext = ret.extensions[k]
              ELSE call = pre.call
        /\ calls' = calls + 1
        /\ pre' = [call |-> call, dirs |-> dirs, files |-> files]
        /\ hist' = <<>>
        /\ IF MakeDirsRaises(dirs, files, destination_folder)
           THEN /\ ret' = [call |-> call, raised |-> TRUE]
                /\ prev' = ret
                /\ UNCHANGED <<dirs, files, pc, frame>>
           ELSE /\ dirs' = MakeDirs(dirs, destination_folder)
                /\ frame' =
                     [call |-> call,
                      progress_callback |-> progress_callback,
                      destination_folder |-> destination_folder,
                      files_to_move_info |->
                          FilesToMoveInfo(dirs', files, source_dir, selected_ext,
                                          destination_folder, scandir_rev),
                      i |-> 0,
                      moved_count |-> 0,
                      skipped_count |-> 0]
                /\ pc' = "sort_files"
                /\ UNCHANGED <<files, ret, prev>>
        /\ UNCHANGED <<scandir_rev, faults>>

(* sort_files, lines 80-81 and 82-84: the counters after a move that       *)
(* succeeded and after one that raised; the loop goes on in both cases.    *)
MoveDone(fr) == [fr EXCEPT !.i = @ + 1, !.moved_count = @ + 1]

MoveFailedBreaks(fr) ==
    [fr EXCEPT !.i = Len(fr.files_to_move_info), !.skipped_count = @ + 1]

MoveFailed(fr) == [fr EXCEPT !.i = @ + 1, !.skipped_count = @ + 1]

(* sort_files, lines 73-84: one turn of the loop.  `fault` says how the    *)
(* operating system fails the move: "refused" when nothing is done,        *)
(* "copied" when os.rename is refused, shutil.move's copy is made and the  *)
(* removal of the source is refused (a source directory that cannot be     *)
(* written); "none" when it does not.  Every failure raises.               *)
SortStep(fault) ==
    /\ pc = "sort_files"
    /\ frame.i < Len(frame.files_to_move_info)
    /\ fault # "none" => faults < MaxFaults
    /\ LET info == frame.files_to_move_info[frame.i + 1]
           original_full_path == Join(info.root, info.name)
           file_name_only == info.name
           event == IF frame.progress_callback
                    THEN <<ProgressEvent(frame.i, Len(frame.files_to_move_info),
                                         file_name_only)>>
                    ELSE <<>>
           unique_filename == GetUniqueFilename(dirs, files, frame.destination_folder,
                                                file_name_only)
           destination_path == Join(frame.destination_folder, unique_filename)
           real_dst == MoveTarget(dirs, original_full_path, destination_path)
           arrival == [kind |-> "", src |-> original_full_path, dst |-> real_dst,
                       replaced |-> IsFile(files, real_dst)]
           skip == [kind |-> "skip", src |-> original_full_path]
       IN  IF MoveRaises(dirs, files, original_full_path, destination_path)
           THEN /\ fault = "none"
                /\ frame' = MoveFailed(frame)
                /\ hist' = hist \o event \o <<skip>>
                /\ UNCHANGED files
           ELSE IF fault = "refused"
           THEN /\ frame' = MoveFailed(frame)
                /\ hist' = hist \o event \o <<skip>>
                /\ UNCHANGED files
           ELSE IF fault = "copied"
           THEN /\ files' = CopyFile(dirs, files, original_full_path, destination_path)
                /\ frame' = MoveFailed(frame)
                /\ hist' = hist \o event \o
                           <<[arrival EXCEPT !.kind = "copy"], skip>>
           ELSE /\ files' = MoveFile(dirs, files, original_full_path, destination_path)
                /\ frame' = MoveDone(frame)
                /\ hist' = hist \o event \o <<[arrival EXCEPT !.kind = "move"]>>
    /\ faults' = IF fault = "none" THEN faults ELSE faults + 1
    /\ UNCHANGED <<dirs, scandir_rev, pc, ret, prev, pre, calls>>

(* sort_files, line 86.                                                    *)
SortReturn ==
    /\ pc = "sort_files"
    /\ frame.i = Len(frame.files_to_move_info)
    /\ ret' = [call |-> frame.call, raised |-> FALSE,
               moved_count |-> frame.moved_count,
               skipped_count |-> frame.skipped_count,
               matched |-> frame.files_to_move_info]
    /\ prev' = ret
    /\ pc' = "idle"
    /\ frame' = NoCall
    /\ UNCHANGED <<dirs, files, scandir_rev, pre, hist, calls, faults>>

NextSort ==
    \/ \E source_dir \in SourceDirs, selected_ext \in SelectedExts,
          progress_callback \in ProgressCallbacks :
          SortCall(source_dir, selected_ext, progress_callback)
    \/ \E fault \in {"none", "refused", "copied"} : SortStep(fault)
    \/ SortReturn

SpecSort == InitSort /\ [][NextSort]_vars

---------------------------------------------------------------------------
(* FileManager.find_duplicates                                             *)

(* hashlib.md5(content).hexdigest(), on the scaled-down digest space.      *)
MD5(content) == content % HashSpace

IndexPutOnce(reference_hashes, file_hash, filename) ==
    IF reference_hashes = <<>> THEN (file_hash :> filename) ELSE reference_hashes

(* Line 128: reference_hashes[file_hash] = filename.                       *)
IndexPut(reference_hashes, file_hash, filename) ==
    (file_hash :> filename) @@ reference_hashes

(* Lines 121-130: the index of the reference tree.  `unreadable` holds the *)
(* files whose open or read raises; each is logged and left out.           *)
RECURSIVE IndexReference(_, _, _, _)
IndexReference(entries, F, unreadable, acc) ==
    IF entries = <<>> THEN acc
    ELSE LET filepath == Join(Head(entries).root, Head(entries).name)
         IN  IndexReference(Tail(entries), F, unreadable,
                IF filepath \in unreadable
                THEN [acc EXCEPT !.log_messages =
                         Append(@, [kind |-> "read_error", path |-> filepath])]
                ELSE [acc EXCEPT !.reference_hashes =
                         IndexPut(@, MD5(F[filepath].content), Head(entries).name)])

(* Lines 144-147: is a check file with this digest (and name) a duplicate, *)
(* and is it to be removed.                                                *)
IsDuplicateSameName(reference_hashes, file_hash, filename) ==
    /\ file_hash \in DOMAIN reference_hashes
    /\ reference_hashes[file_hash] = filename

IsDuplicate(reference_hashes, file_hash, filename) ==
    file_hash \in DOMAIN reference_hashes

RemovesAlways(dry_run) == TRUE

Removes(dry_run) == ~dry_run

(* Line 138: the files the second loop goes through.                       *)
CheckWalkOfReference(D, F, reference_dir, check_dir, rev) ==
    WalkedFiles(WalkTopDown(D, F, reference_dir, rev))

CheckWalk(D, F, reference_dir, check_dir, rev) ==
    WalkedFiles(WalkTopDown(D, F, check_dir, rev))

(* Lines 114-133: the log's first lines, the index, and the walk of the    *)
(* check tree that the loop of lines 138-152 goes through.                 *)
DupsCall(reference_dir, check_dir, dry_run, unreadable) ==
    LET call == [op |-> "find_duplicates", reference_dir |-> reference_dir,
                 check_dir |-> check_dir, dry_run |-> dry_run]
        reference == WalkedFiles(WalkTopDown(dirs, files, reference_dir, scandir_rev))
        indexed == IndexReference(reference, files, unreadable,
                      [reference_hashes |-> <<>>,
                       log_messages |-> <<[kind |-> "start"],
                                          [kind |-> "indexing", path |-> reference_dir]>>])
    IN  /\ pc = "idle"
        /\ calls = 0
        /\ reference_dir \in dirs
        /\ check_dir \in dirs
        /\ unreadable \subseteq FilesUnder(files, reference_dir)
        /\ Cardinality(unreadable) <= MaxFaults - faults
        /\ faults' = faults + Cardinality(unreadable)
        /\ calls' = calls + 1
        /\ pre' = [call |-> call, dirs |-> dirs, files |-> files]
        /\ hist' = <<>>
        /\ frame' =
             [call |-> call,
              reference_hashes |-> indexed.reference_hashes,
              indexed |-> FilesUnder(files, reference_dir) \ unreadable,
              to_check |-> CheckWalk(dirs, files, reference_dir, check_dir, scandir_rev),
              i |-> 0,
              found_count |-> 0,
              deleted_count |-> 0,
              log_messages |->
                  indexed.log_messages \o
                  <<[kind |-> "indexed", count |-> Cardinality(DOMAIN indexed.reference_hashes)],
                    [kind |-> "checking", path |-> check_dir]>>]
        /\ pc' = "find_duplicates"
        /\ UNCHANGED <<dirs, files, scandir_rev, ret, prev>>

(* Lines 144-151: os.remove raised.  The file was counted and logged as a *)
(* duplicate before; the handler logs the failure and the loop goes on.    *)
RemoveFailedCounts(fr, found, error) ==
    [fr EXCEPT !.i = @ + 1,
               !.found_count = @ + 1,
               !.deleted_count = @ + 1,
               !.log_messages = @ \o <<found, error>>]

RemoveFailed(fr, found, error) ==
    [fr EXCEPT !.i = @ + 1,
               !.found_count = @ + 1,
               !.log_messages = @ \o <<found, error>>]

(* Lines 139-152: one check file.  `fault` is "open" when the file cannot  *)
(* be read, "remove" when os.remove raises, "none" otherwise.              *)
DupsStep(fault) ==
    /\ pc = "find_duplicates"
    /\ frame.i < Len(frame.to_check)
    /\ fault # "none" => faults < MaxFaults
    /\ LET entry == frame.to_check[frame.i + 1]
           filepath_to_check == Join(entry.root, entry.name)
           opened == fault # "open" /\ IsFile(files, filepath_to_check)
           file_hash == MD5(files[filepath_to_check].content)
           error == [kind |-> "check_error", path |-> filepath_to_check]
       IN  IF ~opened
           THEN /\ fault # "remove"
                /\ frame' = [frame EXCEPT !.i = @ + 1,
                                          !.log_messages = Append(@, error)]
                /\ hist' = Append(hist, [kind |-> "unread", path |-> filepath_to_check])
                /\ UNCHANGED files
           ELSE LET found == [kind |-> "duplicate", path |-> filepath_to_check,
                              matches |-> frame.reference_hashes[file_hash]]
                    read == [kind |-> "read", path |-> filepath_to_check]
                IN  IF ~IsDuplicate(frame.reference_hashes, file_hash, entry.name)
                    THEN /\ fault = "none"
                         /\ frame' = [frame EXCEPT !.i = @ + 1]
                         /\ hist' = Append(hist, read)
                         /\ UNCHANGED files
                    ELSE IF ~Removes(frame.call.dry_run)
                    THEN /\ fault = "none"
                         /\ frame' = [frame EXCEPT !.i = @ + 1,
                                                   !.found_count = @ + 1,
                                                   !.log_messages = Append(@, found)]
                         /\ hist' = Append(hist, read)
                         /\ UNCHANGED files
                    ELSE IF fault = "remove"
                    THEN /\ frame' = RemoveFailed(frame, found, error)
                         /\ hist' = Append(hist, read)
                         /\ UNCHANGED files
                    ELSE /\ files' = RemoveFile(files, filepath_to_check)
                         /\ frame' = [frame EXCEPT !.i = @ + 1,
                                                   !.found_count = @ + 1,
                                                   !.deleted_count = @ + 1,
                                                   !.log_messages = @ \o
                                                       <<found, [kind |-> "deleted",
                                                                 path |-> filepath_to_check]>>]
                         /\ hist' = hist \o <<read, [kind |-> "remove",
                                                     path |-> filepath_to_check]>>
    /\ faults' = IF fault = "none" THEN faults ELSE faults + 1
    /\ UNCHANGED <<dirs, scandir_rev, pc, ret, prev, pre, calls>>

(* Line 154.                                                               *)
DupsReturn ==
    /\ pc = "find_duplicates"
    /\ frame.i = Len(frame.to_check)
    /\ ret' = [call |-> frame.call, raised |-> FALSE,
               found_count |-> frame.found_count,
               deleted_count |-> frame.deleted_count,
               log_messages |-> frame.log_messages,
               indexed |-> frame.indexed,
               reference_hashes |-> frame.reference_hashes]
    /\ prev' = ret
    /\ pc' = "idle"
    /\ frame' = NoCall
    /\ UNCHANGED <<dirs, files, scandir_rev, pre, hist, calls, faults>>

DupCandidateFiles ==
    { Join(Dir_s, Name_a_jpg),
      Join(Dir_s, Name_b_JPG),
      Join(Dir_jpg_files, Name_a_jpg),
      Join(Dir_in, Name_a_jpg) }

ReferenceDirs == {Top, Dir_s}
CheckDirs == {Top, Dir_jpg_files}

InitDups ==
    /\ \E paths \in SUBSET DupCandidateFiles :
          /\ Cardinality(paths) <= MaxFiles
          /\ \E content \in [paths -> 1..MaxContent] : InitTree(paths, content, {})
    /\ InitControl

NextDups ==
    \/ \E reference_dir \in ReferenceDirs, check_dir \in CheckDirs, dry_run \in BOOLEAN,
          unreadable \in SUBSET DOMAIN files :
          DupsCall(reference_dir, check_dir, dry_run, unreadable)
    \/ \E fault \in {"none", "open", "remove"} : DupsStep(fault)
    \/ DupsReturn

SpecDups == InitDups /\ [][NextDups]_vars

---------------------------------------------------------------------------
(* FileManager.delete_empty_folders                                        *)

(* Line 179: `not os.listdir(dirpath)`, on the tree as it is now.          *)
IsEmptyDirOnListing(D, F, walked) == walked.dirs = <<>> /\ walked.files = <<>>

IsEmptyDirNoFiles(D, F, walked) == walked.files = <<>>

IsEmptyDir(D, F, walked) == Entries(D, F, walked.root) = {}

(* Lines 175-176: the root of the walk is passed over.                     *)
PassOverNothing(dirpath, target_dir) == FALSE

PassOver(dirpath, target_dir) == dirpath = target_dir

(* Line 185: deleted_count += 1, in a dry run as in a real one.            *)
CountEmptyRealRunOnly(deleted_count, dry_run) ==
    IF dry_run THEN deleted_count ELSE deleted_count + 1

CountEmpty(deleted_count, dry_run) == deleted_count + 1

(* Lines 167-174: the log's first line and the bottom-up walk.             *)
PruneCall(target_dir, dry_run) ==
    LET call == [op |-> "delete_empty_folders", target_dir |-> target_dir,
                 dry_run |-> dry_run]
    IN  /\ pc = "idle"
        /\ calls = 0
        /\ target_dir \in dirs
        /\ calls' = calls + 1
        /\ pre' = [call |-> call, dirs |-> dirs, files |-> files]
        /\ hist' = <<>>
        /\ frame' = [call |-> call,
                     walk |-> WalkBottomUp(dirs, files, target_dir, scandir_rev),
                     i |-> 0,
                     deleted_count |-> 0,
                     log_messages |-> <<[kind |-> "start"]>>]
        /\ pc' = "delete_empty_folders"
        /\ UNCHANGED <<dirs, files, scandir_rev, ret, prev, faults>>

(* Lines 174-187: one directory of the walk.  `fault` is a failure of      *)
(* os.listdir or os.rmdir that the operating system reports.               *)
PruneStep(fault) ==
    /\ pc = "delete_empty_folders"
    /\ frame.i < Len(frame.walk)
    /\ LET walked == frame.walk[frame.i + 1]
           dirpath == walked.root
           dry_run == frame.call.dry_run
       IN  IF PassOver(dirpath, frame.call.target_dir)
           THEN /\ ~fault
                /\ frame' = [frame EXCEPT !.i = @ + 1]
                /\ UNCHANGED <<dirs, hist, faults>>
           ELSE IF fault
           THEN /\ faults < MaxFaults
                /\ faults' = faults + 1
                /\ frame' = [frame EXCEPT
                       !.i = @ + 1,
                       !.log_messages = Append(@, [kind |-> "error", path |-> dirpath])]
                /\ UNCHANGED <<dirs, hist>>
           ELSE IF ~IsEmptyDir(dirs, files, walked)
           THEN /\ frame' = [frame EXCEPT !.i = @ + 1]
                /\ UNCHANGED <<dirs, hist, faults>>
           ELSE IF dry_run
           THEN /\ frame' = [frame EXCEPT
                       !.i = @ + 1,
                       !.deleted_count = CountEmpty(@, dry_run),
                       !.log_messages = Append(@, [kind |-> "found", path |-> dirpath])]
                /\ UNCHANGED <<dirs, hist, faults>>
           ELSE /\ dirs' = dirs \ {dirpath}
                /\ hist' = Append(hist, [kind |-> "rmdir", path |-> dirpath,
                                         entries |-> Entries(dirs, files, dirpath)])
                /\ frame' = [frame EXCEPT
                       !.i = @ + 1,
                       !.deleted_count = CountEmpty(@, dry_run),
                       !.log_messages = Append(@, [kind |-> "deleted", path |-> dirpath])]
                /\ UNCHANGED faults
    /\ UNCHANGED <<files, scandir_rev, pc, ret, prev, pre, calls>>

(* Line 189.                                                               *)
PruneReturn ==
    /\ pc = "delete_empty_folders"
    /\ frame.i = Len(frame.walk)
    /\ ret' = [call |-> frame.call, raised |-> FALSE,
               deleted_count |-> frame.deleted_count,
               log_messages |-> frame.log_messages]
    /\ prev' = ret
    /\ pc' = "idle"
    /\ frame' = NoCall
    /\ UNCHANGED <<dirs, files, scandir_rev, pre, hist, calls, faults>>

PruneCandidateFiles ==
    { Join(Top, Name_a_jpg),
      Join(Dir_s, Name_a_jpg),
      Join(Dir_e, Name_a_jpg),
      Join(Dir_in, Name_a_jpg) }

TargetDirs == {Top, Dir_s}

InitPrune ==
    /\ \E paths \in SUBSET PruneCandidateFiles, more_dirs \in SUBSET CandidateDirs :
          /\ Cardinality(paths) <= MaxFiles
          /\ InitTree(paths, [p \in paths |-> 1], more_dirs)
    /\ InitControl

NextPrune ==
    \/ \E target_dir \in TargetDirs, dry_run \in BOOLEAN : PruneCall(target_dir, dry_run)
    \/ \E fault \in BOOLEAN : PruneStep(fault)
    \/ PruneReturn

SpecPrune == InitPrune /\ [][NextPrune]_vars

(* The two delete-capable operations together.                             *)
InitClean == InitDups \/ InitPrune
NextClean == NextDups \/ NextPrune
SpecClean == InitClean /\ [][NextClean]_vars

---------------------------------------------------------------------------
(* FileManager._get_unique_filename, called on its own.                    *)

(* Lines 94-98 as the loop runs them: the names whose existence is tested  *)
(* by os.path.exists, in order; the last one is the name returned.         *)
RECURSIVE UniqueProbes(_, _, _, _, _, _, _)
UniqueProbes(D, F, destination_folder, base_name, extension, counter, new_filename) ==
    IF Exists(D, F, Join(destination_folder, new_filename))
    THEN <<new_filename>> \o
         UniqueProbes(D, F, destination_folder, base_name, extension, counter + 1,
                      base_name \o <<"(">> \o IntToStr(counter + 1) \o <<")">> \o extension)
    ELSE <<new_filename>>

Name_a == <<"a">>
Name_a2_jpg == <<"a", "(", "2", ")", ".", "j", "p", "g">>
Dir_a2_jpg == Join(Dir_jpg_files, Name_a2_jpg)

UniqueCandidateFiles ==
    { Join(Dir_jpg_files, Name_a_jpg),
      Join(Dir_jpg_files, Name_a1_jpg),
      Join(Dir_jpg_files, Name_b_JPG),
      Join(Dir_jpg_files, Name_a) }

UniqueCandidateDirs == {Dir_in, Dir_a2_jpg}
UniqueFolders == {Dir_jpg_files, Dir_s}
UniqueNames == {Name_a_jpg, Name_b_JPG, Name_a, Name_a1_jpg}

InitUnique ==
    /\ \E paths \in SUBSET UniqueCandidateFiles, more_dirs \in SUBSET UniqueCandidateDirs :
          /\ Cardinality(paths) <= MaxFiles
          /\ InitTree(paths, [p \in paths |-> 1], more_dirs)
    /\ InitControl

(* Lines 88-99: the whole call; it changes nothing in the file system.     *)
UniqueCall(destination_folder, original_filename) ==
    LET call == [op |-> "_get_unique_filename",
                 destination_folder |-> destination_folder,
                 original_filename |-> original_filename]
        base_name == SplitExt(original_filename)[1]
        extension == SplitExt(original_filename)[2]
    IN  /\ pc = "idle"
        /\ calls < MaxCalls
        /\ calls' = calls + 1
        /\ pre' = [call |-> call, dirs |-> dirs, files |-> files]
        /\ hist' = [k \in 1..Len(UniqueProbes(dirs, files, destination_folder, base_name,
                                              extension, 0, original_filename)) |->
                      [kind |-> "exists",
                       name |-> UniqueProbes(dirs, files, destination_folder, base_name,
                                             extension, 0, original_filename)[k]]]
        /\ ret' = [call |-> call, raised |-> FALSE,
                   new_filename |-> GetUniqueFilename(dirs, files, destination_folder,
                                                      original_filename)]
        /\ prev' = ret
        /\ UNCHANGED <<dirs, files, scandir_rev, pc, frame, faults>>

NextUnique ==
    \E destination_folder \in UniqueFolders, original_filename \in UniqueNames :
        UniqueCall(destination_folder, original_filename)

SpecUnique == InitUnique /\ [][NextUnique]_vars

---------------------------------------------------------------------------
(* FileManager.scan_extensions                                             *)

(* Lines 30-33: what one file name adds to unique_extensions.              *)
ScannedExtensionAsIs(file_name) ==
    IF LStripDots(SplitExt(file_name)[2]) = <<>> THEN Str_no_extension
    ELSE LStripDots(SplitExt(file_name)[2])

ScannedExtension(file_name) ==
    IF FileExtension(file_name) = <<>> THEN Str_no_extension
    ELSE FileExtension(file_name)

(* sorted(list(..)) of line 34: ascending in Python's string order.        *)
Sorted(S) == Listed(S, FALSE)

(* Lines 25-34.                                                            *)
ScanExtensions(D, F, source_dir, rev) ==
    LET walked == WalkedFiles(WalkTopDown(D, F, source_dir, rev))
        unique_extensions == {ScannedExtension(walked[k].name) : k \in 1..Len(walked)}
    IN  Sorted(unique_extensions)

Name_readme == <<"r", "e", "a", "d", "m", "e">>
Name_a_TXT == <<"a", ".", "T", "X", "T">>
Name_dot_jpg == <<".", "j", "p", "g">>
Name_a_dot == <<"a", ".">>
Name_a_b_jpg == <<"a", ".", "b", ".", "j", "p", "g">>
Str_txt == <<"t", "x", "t">>

ScanCandidateFiles ==
    { Join(Top, Name_readme),
      Join(Top, Name_dot_jpg),
      Join(Dir_s, Name_a_TXT),
      Join(Dir_s, Name_b_JPG),
      Join(Dir_s, Name_a_dot),
      Join(Dir_e, Name_a_jpg),
      Join(Dir_e, Name_a_b_jpg) }

ScanDirs == {Top, Dir_s, Dir_in}

InitScan ==
    /\ \E paths \in SUBSET ScanCandidateFiles, more_dirs \in SUBSET {Dir_e} :
          /\ Cardinality(paths) <= MaxFiles
          /\ InitTree(paths, [p \in paths |-> 1], more_dirs)
    /\ InitControl

(* Lines 15-34: the whole call; it changes nothing in the file system.     *)
ScanCall(source_dir) ==
    LET call == [op |-> "scan_extensions", source_dir |-> source_dir]
    IN  /\ pc = "idle"
        /\ calls < MaxCalls
        /\ calls' = calls + 1
        /\ pre' = [call |-> call, dirs |-> dirs, files |-> files]
        /\ hist' = <<>>
        /\ ret' = [call |-> call, raised |-> FALSE,
                   extensions |-> ScanExtensions(dirs, files, source_dir, scandir_rev)]
        /\ prev' = ret
        /\ UNCHANGED <<dirs, files, scandir_rev, pc, frame, faults>>

NextScan == \E source_dir \in ScanDirs : ScanCall(source_dir)

SpecScan == InitScan /\ [][NextScan]_vars

---------------------------------------------------------------------------
(* image_editor/core/image_processor.py (class ImageProcessor): the batch  *)
(* transcoder and the frame extractor.  The content of an image file is    *)
(* its pixel size and the colour model of each of its frames; a file that  *)
(* no decoder reads has no frame.                                          *)

MaxImages == 2     \* files in the directory the call reads
MaxSide == 2       \* width and height of an image, in pixels
MaxFrames == 2     \* frames of an animated image

Junk == [size |-> <<0, 0>>, modes |-> <<>>]

Decodes(content) == content.modes # <<>>

(* Colour models: with an alpha channel or a palette, and without.         *)
AlphaModes == {"RGBA", "LA", "P"}
PlainModes == {"RGB"}

(* A number m / 2^k as Python's float holds it exactly: num / den.         *)
Scale(num, den) == [num |-> num, den |-> den]

(* int(x * percentage) of lines 231-232, x an int: the product is exact    *)
(* for these operands, and int() drops the fraction (towards zero).        *)
IntOfProductRounded(x, percentage) ==
    (2 * x * percentage.num + percentage.den) \div (2 * percentage.den)

IntOfProduct(x, percentage) ==
    IF x * percentage.num >= 0
    THEN (x * percentage.num) \div percentage.den
    ELSE -((-(x * percentage.num)) \div percentage.den)

(* PIL.Image.open: raises unless the path is a regular file that decodes;  *)
(* the image it gives has the mode of its first frame.                     *)
OpenRaises(F, filepath) == ~IsFile(F, filepath) \/ ~Decodes(F[filepath].content)

(* Image.resize: raises unless both sides are at least 1.                  *)
ResizeRaises(new_size) == new_size[1] < 1 \/ new_size[2] < 1

(* Image.convert.                                                          *)
Convert(mode, to) == to

(* The encoder Image.save picks from the extension of the path, and the    *)
(* modes it writes: JPEG takes no alpha channel and no palette.            *)
Str_jpeg == <<"j", "p", "e", "g">>
Str_png == <<"p", "n", "g">>
Str_gif == <<"g", "i", "f">>

EncoderModes(format) ==
    IF format \in {Str_jpeg, Str_jpg} THEN PlainModes ELSE PlainModes \cup AlphaModes

(* Image.save(path): raises when the encoder does not write the mode or    *)
(* the path is a directory.                                                *)
SaveRaises(D, F, path, mode) ==
    \/ mode \notin EncoderModes(Lower(LStripDots(SplitExt(BaseName(path))[2])))
    \/ IsDir(D, path)
    \/ ~IsDir(D, Parent(path))

WriteFile(F, path, content) ==
    [q \in DOMAIN F \cup {path} |-> IF q = path THEN [content |-> content] ELSE F[q]]

(* What a save that raises leaves at the path: the file is opened for      *)
(* writing before the encoder runs, so a file that was there is cut to     *)
(* nothing; a file that was not is left empty or removed again, with the   *)
(* version of the library.                                                 *)
FailedSave(D, F, path, leaves_file) ==
    IF IsDir(D, path) \/ ~IsDir(D, Parent(path)) THEN F
    ELSE IF IsFile(F, path) \/ leaves_file THEN WriteFile(F, path, Junk)
    ELSE F

(* str.endswith(suffixes).                                                 *)
EndsWith(s, suffix) ==
    Len(s) >= Len(suffix) /\ SubSeq(s, Len(s) - Len(suffix) + 1, Len(s)) = suffix

(* Lines 198-209: the suffixes of supported_formats that a name of the     *)
(* model can bear.                                                         *)
SupportedFormats == {<<".">> \o Str_jpg, <<".">> \o Str_jpeg, <<".">> \o Str_png,
                     <<".">> \o Str_gif}

(* Lines 211-214: the listing of source_dir, filtered.                     *)
ImageFiles(D, F, source_dir, rev) ==
    SelectSeq(Listed(Entries(D, F, source_dir), rev),
              LAMBDA filename : \E suffix \in SupportedFormats :
                                    EndsWith(Lower(filename), suffix))

(* Lines 240-244: the mode that is saved.                                  *)
SavedModeNoFlatten(output_format, mode) == mode

SavedMode(output_format, mode) ==
    IF Lower(output_format) \in {Str_jpeg, <<"w", "e", "b", "p">>} /\ mode \in {"RGBA", "P"}
    THEN Convert(mode, "RGB")
    ELSE mode

(* Lines 237-238.                                                          *)
OutputFilepathKeepsName(dest_dir, filename, output_format) ==
    Join(dest_dir, filename \o <<".">> \o Lower(output_format))

OutputFilepath(dest_dir, filename, output_format) ==
    Join(dest_dir, SplitExt(filename)[1] \o <<".">> \o Lower(output_format))

---------------------------------------------------------------------------
(* ImageProcessor.batch_process_images                                     *)

(* Lines 193-194: the precondition that is checked.                        *)
BatchPreconditionSourceOnly(D, source_dir, dest_dir, percentage) ==
    IsDir(D, source_dir)

BatchPrecondition(D, source_dir, dest_dir, percentage) ==
    IsDir(D, source_dir) /\ IsDir(D, dest_dir)

(* Lines 193-220.  `quality` reaches the encoder only and is left out.     *)
BatchCall(source_dir, dest_dir, percentage, output_format, progress_callback) ==
    LET call == [op |-> "batch_process_images", source_dir |-> source_dir,
                 dest_dir |-> dest_dir, percentage |-> percentage,
                 output_format |-> output_format]
        image_files == ImageFiles(dirs, files, source_dir, scandir_rev)
    IN  /\ pc = "idle"
        /\ calls = 0
        /\ calls' = calls + 1
        /\ pre' = [call |-> call, dirs |-> dirs, files |-> files]
        /\ hist' = <<>>
        /\ IF ~BatchPrecondition(dirs, source_dir, dest_dir, percentage)
           THEN /\ ret' = [call |-> call, raised |-> TRUE]
                /\ prev' = ret
                /\ UNCHANGED <<dirs, pc, frame>>
           ELSE IF image_files = <<>>
           THEN /\ ret' = [call |-> call, raised |-> FALSE, processed_count |-> 0,
                           image_files |-> image_files]
                /\ prev' = ret
                /\ dirs' = MakeDirs(dirs, dest_dir)
                /\ UNCHANGED <<pc, frame>>
           ELSE /\ dirs' = MakeDirs(dirs, dest_dir)
                /\ frame' = [call |-> call,
                             progress_callback |-> progress_callback,
                             image_files |-> image_files,
                             i |-> 0,
                             processed_count |-> 0]
                /\ pc' = "batch_process_images"
                /\ UNCHANGED <<ret, prev>>
        /\ UNCHANGED <<files, scandir_rev, faults>>

(* Lines 248 and 249-251: the counters after a file that was written and   *)
(* after one that raised; the loop goes on in both cases.                  *)
ItemDone(fr) == [fr EXCEPT !.i = @ + 1, !.processed_count = @ + 1]

ItemFailedBreaks(fr) == [fr EXCEPT !.i = Len(fr.image_files)]

ItemFailed(fr) == [fr EXCEPT !.i = @ + 1]

(* Lines 222-251: one turn of the loop.                                    *)
BatchStep(leaves_file) ==
    /\ pc = "batch_process_images"
    /\ frame.i < Len(frame.image_files)
    /\ LET filename == frame.image_files[frame.i + 1]
           filepath == Join(frame.call.source_dir, filename)
           event == IF frame.progress_callback
                    THEN <<ProgressEvent(frame.i, Len(frame.image_files), filename)>>
                    ELSE <<>>
           img == IF OpenRaises(files, filepath) THEN Junk ELSE files[filepath].content
           opened == [kind |-> "open", path |-> filepath, image |-> img]
           error == [kind |-> "error", name |-> filename]
           new_width == IntOfProduct(img.size[1], frame.call.percentage)
           new_height == IntOfProduct(img.size[2], frame.call.percentage)
           output_filepath == OutputFilepath(frame.call.dest_dir, filename,
                                             frame.call.output_format)
           mode == SavedMode(frame.call.output_format, img.modes[1])
           written == [size |-> <<new_width, new_height>>, modes |-> <<mode>>]
       IN  IF OpenRaises(files, filepath)
           THEN /\ ~leaves_file
                /\ frame' = ItemFailed(frame)
                /\ hist' = hist \o event \o <<opened, error>>
                /\ UNCHANGED files
           ELSE IF ResizeRaises(<<new_width, new_height>>)
           THEN /\ ~leaves_file
                /\ frame' = ItemFailed(frame)
                /\ hist' = hist \o event \o <<opened, error>>
                /\ UNCHANGED files
           ELSE IF SaveRaises(dirs, files, output_filepath, mode)
           THEN /\ leaves_file => ~Exists(dirs, files, output_filepath)
                /\ files' = FailedSave(dirs, files, output_filepath, leaves_file)
                /\ frame' = ItemFailed(frame)
                /\ hist' = hist \o event \o <<opened, error>>
           ELSE /\ ~leaves_file
                /\ files' = WriteFile(files, output_filepath, written)
                /\ frame' = ItemDone(frame)
                /\ hist' = hist \o event \o
                           <<opened, [kind |-> "write", path |-> output_filepath,
                                      name |-> filename, image |-> written]>>
    /\ UNCHANGED <<dirs, scandir_rev, pc, ret, prev, pre, calls, faults>>

(* Line 252.                                                               *)
BatchReturn ==
    /\ pc = "batch_process_images"
    /\ frame.i = Len(frame.image_files)
    /\ ret' = [call |-> frame.call, raised |-> FALSE,
               processed_count |-> frame.processed_count,
               image_files |-> frame.image_files]
    /\ prev' = ret
    /\ pc' = "idle"
    /\ frame' = NoCall
    /\ UNCHANGED <<dirs, files, scandir_rev, pre, hist, calls, faults>>

Name_a_png == <<"a", ".", "p", "n", "g">>
Name_a_gif == <<"a", ".", "g", "i", "f">>
Name_a_jpeg == <<"a", ".", "j", "p", "e", "g">>

Name_a_GIF == <<"a", ".", "G", "I", "F">>

BatchCandidateFiles ==
    { Join(Dir_s, Name_a_png),
      Join(Dir_s, Name_a_GIF),
      Join(Dir_s, Name_readme) }

(* The images the files hold: opaque ones of every width, one-pixel ones   *)
(* of every mode with an alpha channel or a palette, and a file that does  *)
(* not decode.                                                             *)
StillImages ==
    {[size |-> <<w, MaxSide>>, modes |-> <<"RGB">>] : w \in 1..MaxSide}
    \cup {[size |-> <<1, 1>>, modes |-> <<m>>] : m \in AlphaModes}
    \cup {Junk}

BatchSourceDirs == {Dir_s, Dir_in}
BatchDestDirs == {Dir_s, Dir_jpg_files}
Percentages == {Scale(-1, 2), Scale(0, 1), Scale(1, 2), Scale(3, 2)}
OutputFormats == {Str_jpeg, Str_png}

InitBatch ==
    /\ \E paths \in SUBSET BatchCandidateFiles, more_dirs \in SUBSET {Dir_s, Dir_jpg_files} :
          /\ Cardinality(paths) <= MaxImages
          /\ \E content \in [paths -> StillImages] :
                /\ Join(Dir_s, Name_readme) \in paths => content[Join(Dir_s, Name_readme)] = Junk
                /\ InitTree(paths, content, more_dirs)
    /\ InitControl

NextBatch ==
    \/ \E source_dir \in BatchSourceDirs, dest_dir \in BatchDestDirs,
          percentage \in Percentages, output_format \in OutputFormats,
          progress_callback \in ProgressCallbacks :
          BatchCall(source_dir, dest_dir, percentage, output_format, progress_callback)
    \/ \E leaves_file \in BOOLEAN : BatchStep(leaves_file)
    \/ BatchReturn

SpecBatch == InitBatch /\ [][NextBatch]_vars

---------------------------------------------------------------------------
(* ImageProcessor.extract_gif_frames                                       *)

(* f"{n:04d}": the decimal digits, with zeros in front up to four.         *)
Format04d(n) ==
    LET digits == IntToStr(n)
    IN  [k \in 1..(4 - Len(digits)) |-> "0"] \o digits

(* Line 320: the name of the file of one frame.                            *)
FrameFileName(gif_name_without_ext, frame_count) ==
    gif_name_without_ext \o <<"_", "f", "r", "a", "m", "e", "_">>
        \o Format04d(frame_count) \o <<".">> \o Str_png

(* Lines 317-318: the mode a frame is saved in.                            *)
FrameModeAsIs(mode) == mode

FrameMode(mode) == IF mode # "RGBA" THEN Convert(mode, "RGBA") ELSE mode

(* Line 273: the test on the path of single-file mode.                     *)
SingleFileInvalid(D, F, input_path) ==
    \/ ~IsFile(F, input_path)
    \/ ~EndsWith(Lower(BaseName(input_path)), <<".">> \o Str_gif)

(* Line 279: os.walk(input_directory) names a variable that the function   *)
(* does not have: evaluating it raises NameError, outside any try block.   *)
DirectoryWalkRaises == TRUE

(* Lines 297-305: the folder of the frames of one file.  In single-file    *)
(* mode it is output_base_directory/<stem>.                                *)
OutputGifFolder(output_base_directory, gif_name_without_ext) ==
    Join(output_base_directory, gif_name_without_ext)

(* Lines 271-289.                                                          *)
GifCall(input_path, output_base_directory, is_single_file, progress_callback) ==
    LET call == [op |-> "extract_gif_frames", input_path |-> input_path,
                 output_base_directory |-> output_base_directory,
                 is_single_file |-> is_single_file]
        raises == IF is_single_file
                  THEN \/ SingleFileInvalid(dirs, files, input_path)
                       \/ MakeDirsRaises(dirs, files, output_base_directory)
                  ELSE ~IsDir(dirs, input_path) \/ DirectoryWalkRaises
    IN  /\ pc = "idle"
        /\ calls = 0
        /\ calls' = calls + 1
        /\ pre' = [call |-> call, dirs |-> dirs, files |-> files]
        /\ hist' = <<>>
        /\ IF raises
           THEN /\ ret' = [call |-> call, raised |-> TRUE]
                /\ prev' = ret
                /\ UNCHANGED <<dirs, pc, frame>>
           ELSE /\ dirs' = MakeDirs(dirs, output_base_directory)
                /\ frame' = [call |-> call,
                             progress_callback |-> progress_callback,
                             gif_files |-> <<input_path>>,
                             gif_idx |-> 0,
                             opened |-> FALSE,
                             frame_count |-> 0,
                             total_frames_extracted |-> 0]
                /\ pc' = "extract_gif_frames"
                /\ UNCHANGED <<ret, prev>>
        /\ UNCHANGED <<files, scandir_rev, faults>>

(* Lines 292-309: the folder of the next file is made and the file opened. *)
GifOpen ==
    /\ pc = "extract_gif_frames"
    /\ frame.gif_idx < Len(frame.gif_files)
    /\ ~frame.opened
    /\ LET gif_path == frame.gif_files[frame.gif_idx + 1]
           gif_name_without_ext == SplitExt(BaseName(gif_path))[1]
           output_gif_folder == OutputGifFolder(frame.call.output_base_directory,
                                                gif_name_without_ext)
           error == [kind |-> "error", name |-> BaseName(gif_path)]
       IN  IF MakeDirsRaises(dirs, files, output_gif_folder)
           THEN /\ frame' = [frame EXCEPT !.gif_idx = @ + 1]
                /\ hist' = Append(hist, error)
                /\ UNCHANGED dirs
           ELSE IF OpenRaises(files, gif_path)
           THEN /\ dirs' = MakeDirs(dirs, output_gif_folder)
                /\ frame' = [frame EXCEPT !.gif_idx = @ + 1]
                /\ hist' = hist \o <<[kind |-> "open", path |-> gif_path, image |-> Junk],
                                      error>>
           ELSE /\ dirs' = MakeDirs(dirs, output_gif_folder)
                /\ frame' = [frame EXCEPT !.opened = TRUE, !.frame_count = 0]
                /\ hist' = Append(hist, [kind |-> "open", path |-> gif_path,
                                         image |-> files[gif_path].content])
    /\ UNCHANGED <<files, scandir_rev, pc, ret, prev, pre, calls, faults>>

(* Lines 327-329: what the end of the frames adds to the error log.        *)
EndOfFramesReported(gif_path) == <<[kind |-> "error", name |-> BaseName(gif_path)]>>

EndOfFrames(gif_path) == <<>>

(* Lines 330-332: a frame of the file could not be converted or saved; the *)
(* handler prints the error and the outer loop goes on to the next file;   *)
(* the frames counted so far stay counted.                                 *)
FileFailedLosesFrames(fr) ==
    [fr EXCEPT !.gif_idx = @ + 1, !.opened = FALSE,
               !.total_frames_extracted = @ - fr.frame_count]

FileFailed(fr) == [fr EXCEPT !.gif_idx = @ + 1, !.opened = FALSE]

(* Lines 312-332: one turn of the inner loop.  img.seek raises EOFError    *)
(* past the last frame; `fault` is a failure of the save that the          *)
(* operating system reports, and `leaves_file` what it leaves.             *)
GifFrame(fault, leaves_file) ==
    /\ pc = "extract_gif_frames"
    /\ frame.gif_idx < Len(frame.gif_files)
    /\ frame.opened
    /\ fault => faults < MaxFaults
    /\ LET gif_path == frame.gif_files[frame.gif_idx + 1]
           gif_filename == BaseName(gif_path)
           gif_name_without_ext == SplitExt(gif_filename)[1]
           output_gif_folder == OutputGifFolder(frame.call.output_base_directory,
                                                gif_name_without_ext)
           img == files[gif_path].content
           frame_output_path ==
               Join(output_gif_folder, FrameFileName(gif_name_without_ext, frame.frame_count))
           mode == FrameMode(img.modes[frame.frame_count + 1])
           written == [size |-> img.size, modes |-> <<mode>>]
           error == [kind |-> "error", name |-> gif_filename]
           event == IF frame.progress_callback
                    THEN <<[kind |-> "progress", current |-> frame.gif_idx + 1,
                            total |-> Len(frame.gif_files), label |-> gif_filename,
                            frame |-> frame.frame_count + 1, frames |-> Len(img.modes)]>>
                    ELSE <<>>
       IN  IF frame.frame_count >= Len(img.modes)
           THEN /\ ~fault /\ ~leaves_file
                /\ frame' = [frame EXCEPT !.gif_idx = @ + 1, !.opened = FALSE]
                /\ hist' = hist \o EndOfFrames(gif_path)
                /\ UNCHANGED files
           ELSE IF fault \/ SaveRaises(dirs, files, frame_output_path, mode)
           THEN /\ leaves_file => ~Exists(dirs, files, frame_output_path)
                /\ files' = FailedSave(dirs, files, frame_output_path, leaves_file)
                /\ frame' = FileFailed(frame)
                /\ hist' = Append(hist, error)
           ELSE /\ ~leaves_file
                /\ files' = WriteFile(files, frame_output_path, written)
                /\ frame' = [frame EXCEPT !.frame_count = @ + 1,
                                          !.total_frames_extracted = @ + 1]
                /\ hist' = hist \o <<[kind |-> "write", path |-> frame_output_path,
                                      name |-> gif_filename, image |-> written]>>
                                \o event
    /\ faults' = IF fault THEN faults + 1 ELSE faults
    /\ UNCHANGED <<dirs, scandir_rev, pc, ret, prev, pre, calls>>

(* Line 333.                                                               *)
GifReturn ==
    /\ pc = "extract_gif_frames"
    /\ frame.gif_idx = Len(frame.gif_files)
    /\ ret' = [call |-> frame.call, raised |-> FALSE,
               total_frames_extracted |-> frame.total_frames_extracted]
    /\ prev' = ret
    /\ pc' = "idle"
    /\ frame' = NoCall
    /\ UNCHANGED <<dirs, files, scandir_rev, pre, hist, calls, faults>>

GifCandidateFiles ==
    { Join(Dir_s, Name_a_GIF),
      Join(Dir_s, Name_a_png),
      Join(Dir_s, Name_a) }

(* Animated images of every number of frames, each frame with a palette or *)
(* with an alpha channel, and a file that does not decode.                 *)
AnimatedImages ==
    {[size |-> <<1, 1>>, modes |-> ms] :
        ms \in UNION {[1..k -> {"P", "RGBA"}] : k \in 1..MaxFrames}}
    \cup {Junk}

GifInputPaths == {Join(Dir_s, Name_a_GIF), Join(Dir_s, Name_a_png), Dir_s, Dir_in}
GifOutputDirs == {Dir_s, Dir_jpg_files}

InitGif ==
    /\ \E paths \in SUBSET GifCandidateFiles, more_dirs \in SUBSET {Dir_s, Dir_jpg_files} :
          /\ Cardinality(paths) <= MaxImages
          /\ \E content \in [paths -> AnimatedImages] :
                /\ \A p \in paths : p # Join(Dir_s, Name_a_GIF) => content[p] = Junk
                /\ InitTree(paths, content, more_dirs)
    /\ InitControl

NextGif ==
    \/ \E input_path \in GifInputPaths, output_base_directory \in GifOutputDirs,
          is_single_file \in BOOLEAN, progress_callback \in ProgressCallbacks :
          GifCall(input_path, output_base_directory, is_single_file, progress_callback)
    \/ GifOpen
    \/ \E fault \in BOOLEAN, leaves_file \in BOOLEAN : GifFrame(fault, leaves_file)
    \/ GifReturn

SpecGif == InitGif /\ [][NextGif]_vars

(* The two operations of the image processor together.                     *)
InitImages == InitBatch \/ InitGif
NextImages == NextBatch \/ NextGif
SpecImages == InitImages /\ [][NextImages]_vars

---------------------------------------------------------------------------
(* sort_files and batch_process_images on the same trees of image files,   *)
(* for the progress events of both.  The files named b.JPG do not decode.  *)
ProgressImage == [size |-> <<MaxSide, MaxSide>>, modes |-> <<"RGB">>]

InitProgress ==
    /\ \E paths \in SUBSET CandidateFiles :
          /\ Cardinality(paths) <= MaxFiles
          /\ InitTree(paths,
                      [p \in paths |-> IF BaseName(p) = Name_b_JPG
                                       THEN Junk ELSE ProgressImage],
                      {})
    /\ InitControl

NextProgress ==
    \/ NextSort
    \/ \E source_dir \in SourceDirs, progress_callback \in ProgressCallbacks :
          BatchCall(source_dir, Dir_jpg_files, Scale(1, 2), Str_jpeg, progress_callback)
    \/ \E leaves_file \in BOOLEAN : BatchStep(leaves_file)
    \/ BatchReturn

SpecProgress == InitProgress /\ [][NextProgress]_vars

---------------------------------------------------------------------------
(* scan_extensions followed by sort_files with a value it returned.        *)
Name_a_no_extension == <<"a", ".">> \o Str_no_extension

ClassifyCandidateFiles ==
    { Join(Top, Name_readme),
      Join(Top, Name_dot_jpg),
      Join(Top, Name_a_b_jpg),
      Join(Dir_s, Name_a_TXT),
      Join(Dir_s, Name_b_JPG),
      Join(Dir_s, Name_a_dot),
      Join(Dir_s, Name_a_no_extension) }

ClassifyExts == {Str_jpg, Str_txt, Str_no_extension}

InitClassify ==
    /\ \E paths \in SUBSET ClassifyCandidateFiles :
          /\ Cardinality(paths) <= MaxFiles
          /\ InitTree(paths, [p \in paths |-> 1], {})
    /\ InitControl

NextClassify ==
    \/ \E source_dir \in SourceDirs : ScanCall(source_dir)
    \/ \E source_dir \in SourceDirs, selected_ext \in ClassifyExts :
          SortCall(source_dir, selected_ext, FALSE)
    \/ SortStep("none")
    \/ SortReturn

SpecClassify == InitClassify /\ [][NextClassify]_vars

---------------------------------------------------------------------------
(* Two sort_files invocations with the same arguments on two worker        *)
(* threads.  A step of a thread is the set-up of its call (lines 48-71,    *)
(* taken as one step), one os.path.exists of _get_unique_filename (line    *)
(* 96), or one shutil.move with the counting that follows it (lines 80-84).*)
Threads == {1, 2}

(* Lines 94-95, for item i of the list: no probe made yet.                 *)
FirstProbe(th) ==
    IF th.i < Len(th.files_to_move_info)
    THEN [th EXCEPT !.pc = "probe", !.counter = 0,
                    !.new_filename = th.files_to_move_info[th.i + 1].name]
    ELSE [th EXCEPT !.pc = "done"]

(* Both workers are started on source_dir and selected_ext.                *)
ThreadsStart(source_dir, selected_ext) ==
    LET call == [op |-> "sort_files", source_dir |-> source_dir,
                 selected_ext |-> selected_ext]
    IN  /\ pc = "idle"
        /\ calls = 0
        /\ calls' = calls + 1
        /\ pre' = [call |-> call, dirs |-> dirs, files |-> files]
        /\ hist' = <<>>
        /\ frame' = [call |-> call,
                     destination_folder |->
                         Join(source_dir, DestinationFolderName(selected_ext)),
                     threads |-> [t \in Threads |->
                                     [pc |-> "call", files_to_move_info |-> <<>>, i |-> 0,
                                      counter |-> 0, new_filename |-> <<>>,
                                      moved_count |-> 0, skipped_count |-> 0,
                                      raised |-> FALSE]]]
        /\ pc' = "sort_files_threads"
        /\ UNCHANGED <<dirs, files, scandir_rev, ret, prev, faults>>

(* Lines 48-71 in thread t: the destination folder is made and the tree    *)
(* scanned, as the thread finds it.                                        *)
ThreadCall(t) ==
    /\ pc = "sort_files_threads"
    /\ frame.threads[t].pc = "call"
    /\ IF MakeDirsRaises(dirs, files, frame.destination_folder)
       THEN /\ frame' = [frame EXCEPT !.threads[t].pc = "done",
                                      !.threads[t].raised = TRUE]
            /\ UNCHANGED dirs
       ELSE /\ dirs' = MakeDirs(dirs, frame.destination_folder)
            /\ frame' = [frame EXCEPT !.threads[t] =
                   FirstProbe([@ EXCEPT !.files_to_move_info =
                       FilesToMoveInfo(dirs', files, frame.call.source_dir,
                                       frame.call.selected_ext,
                                       frame.destination_folder, scandir_rev)])]
    /\ UNCHANGED <<files, scandir_rev, pc, ret, prev, pre, hist, calls, faults>>

(* Lines 96-98 in thread t: one test of the loop of _get_unique_filename.  *)
ThreadProbe(t) ==
    /\ pc = "sort_files_threads"
    /\ frame.threads[t].pc = "probe"
    /\ LET th == frame.threads[t]
           original_filename == th.files_to_move_info[th.i + 1].name
           base_name == SplitExt(original_filename)[1]
           extension == SplitExt(original_filename)[2]
       IN  IF Exists(dirs, files, Join(frame.destination_folder, th.new_filename))
           THEN frame' = [frame EXCEPT
                    !.threads[t].counter = @ + 1,
                    !.threads[t].new_filename =
                        base_name \o <<"(">> \o IntToStr(th.counter + 1)
                                  \o <<")">> \o extension]
           ELSE frame' = [frame EXCEPT !.threads[t].pc = "move"]
    /\ UNCHANGED <<dirs, files, scandir_rev, pc, ret, prev, pre, hist, calls, faults>>

(* Lines 79-84 in thread t: the move to the name the probes returned, and  *)
(* the counting.  `fault` is a move that the operating system refuses.     *)
ThreadMove(t, fault) ==
    /\ pc = "sort_files_threads"
    /\ frame.threads[t].pc = "move"
    /\ fault => faults < MaxFaults
    /\ LET th == frame.threads[t]
           info == th.files_to_move_info[th.i + 1]
           original_full_path == Join(info.root, info.name)
           destination_path == Join(frame.destination_folder, th.new_filename)
           real_dst == MoveTarget(dirs, original_full_path, destination_path)
       IN  IF fault \/ MoveRaises(dirs, files, original_full_path, destination_path)
           THEN /\ frame' = [frame EXCEPT !.threads[t] = FirstProbe(MoveFailed(th))]
                /\ hist' = Append(hist, [kind |-> "skip", src |-> original_full_path,
                                         thread |-> t])
                /\ UNCHANGED files
           ELSE /\ files' = MoveFile(dirs, files, original_full_path, destination_path)
                /\ frame' = [frame EXCEPT !.threads[t] = FirstProbe(MoveDone(th))]
                /\ hist' = Append(hist, [kind |-> "move", src |-> original_full_path,
                                         dst |-> real_dst,
                                         replaced |-> IsFile(files, real_dst),
                                         thread |-> t])
    /\ faults' = IF fault THEN faults + 1 ELSE faults
    /\ UNCHANGED <<dirs, scandir_rev, pc, ret, prev, pre, calls>>

(* Line 86 in both threads: both have returned.                            *)
ThreadsReturn ==
    /\ pc = "sort_files_threads"
    /\ \A t \in Threads : frame.threads[t].pc = "done"
    /\ ret' = [call |-> frame.call,
               raised |-> \E t \in Threads : frame.threads[t].raised,
               moved_count |-> [t \in Threads |-> frame.threads[t].moved_count],
               skipped_count |-> [t \in Threads |-> frame.threads[t].skipped_count]]
    /\ prev' = ret
    /\ pc' = "idle"
    /\ frame' = NoCall
    /\ UNCHANGED <<dirs, files, scandir_rev, pre, hist, calls, faults>>

ThreadCandidateFiles ==
    { Join(Top, Name_a_jpg),
      Join(Dir_s, Name_a_jpg),
      Join(Dir_s, Name_b_JPG),
      Join(Dir_jpg_files, Name_a_jpg),
      Join(Dir_in, Name_a_jpg) }

InitThreads ==
    /\ \E paths \in SUBSET ThreadCandidateFiles :
          /\ Cardinality(paths) <= MaxFiles
          /\ InitTree(paths, [p \in paths |-> 1], {})
    /\ InitControl

NextThreads ==
    \/ \E source_dir \in SourceDirs : ThreadsStart(source_dir, Str_jpg)
    \/ \E t \in Threads : ThreadCall(t)
    \/ \E t \in Threads : ThreadProbe(t)
    \/ \E t \in Threads, fault \in BOOLEAN : ThreadMove(t, fault)
    \/ ThreadsReturn

SpecThreads == InitThreads /\ [][NextThreads]_vars

(* Every operation of the file manager and of the image processor.         *)
Init ==
    \/ InitSort \/ InitDups \/ InitPrune \/ InitUnique \/ InitScan \/ InitBatch \/ InitGif
    \/ InitProgress \/ InitClassify \/ InitThreads
Next ==
    \/ NextSort \/ NextDups \/ NextPrune \/ NextUnique \/ NextScan \/ NextBatch \/ NextGif
    \/ NextProgress \/ NextClassify \/ NextThreads
Spec == Init /\ [][Next]_vars

---------------------------------------------------------------------------
(* Properties of sort_files.                                               *)

Moves == SelectSeq(hist, LAMBDA h : h.kind = "move")
Arrivals == SelectSeq(hist, LAMBDA h : h.kind \in {"move", "copy"})
Attempts == SelectSeq(hist, LAMBDA h : h.kind \in {"move", "skip"})

SortRunning == pc = "sort_files"
SortReturned == pc = "idle" /\ pre.call.op = "sort_files" /\ ~ret.raised
SortDestination ==
    Join(pre.call.source_dir, DestinationFolderName(pre.call.selected_ext))

FilesIn(F, d) == {p \in DOMAIN F : Parent(p) = d}

(* C1 (as claimed): during and after a sort_files call, every file that    *)
(* arrived in the destination folder did so directly in it, under a name   *)
(* that did not exist there (nothing was replaced, so the folder holds one *)
(* more file per arrival), and the number of files under source_dir is     *)
(* what it was when the call started.                                      *)
C1_NoMoveOverwrites ==
    (SortRunning \/ SortReturned) =>
        /\ \A k \in 1..Len(Arrivals) :
              /\ ~Arrivals[k].replaced
              /\ Parent(Arrivals[k].dst) = SortDestination
        /\ Cardinality(FilesIn(files, SortDestination))
              = Cardinality(FilesIn(pre.files, SortDestination)) + Len(Arrivals)
        /\ Cardinality(FilesUnder(files, pre.call.source_dir))
              = Cardinality(FilesUnder(pre.files, pre.call.source_dir))

(* C6: a sort_files call that directly follows a sort_files call with the   *)
(* same arguments in which no move failed moves nothing, skips nothing and *)
(* leaves the tree as it found it.                                         *)
C6_SortTwiceMovesNothing ==
    ( /\ SortReturned
      /\ prev # NoCall
      /\ prev.call = ret.call
      /\ ~prev.raised
      /\ prev.skipped_count = 0 )
    => /\ ret.moved_count = 0
       /\ ret.skipped_count = 0
       /\ files = pre.files
       /\ dirs = pre.dirs

(* The second of two such calls has returned, the first having moved files.*)
C6_Witness ==
    /\ SortReturned
    /\ prev # NoCall
    /\ prev.call = ret.call
    /\ ~prev.raised
    /\ prev.skipped_count = 0
    /\ prev.moved_count >= 2

(* C7 (as claimed): no file selected for the move lies in the destination  *)
(* folder or anywhere below it.                                            *)
C7_NeverSelectsBelowDestination ==
    SortRunning =>
        \A k \in 1..Len(frame.files_to_move_info) :
            ~IsPrefix(frame.destination_folder, frame.files_to_move_info[k].root)

(* C8: the loop of sort_files attempts the matched files one by one in     *)
(* enumeration order whatever fails; a running call can always take its    *)
(* next turn or return; moved_count counts the moves made, and on return   *)
(* moved_count + skipped_count is the number of matched files and          *)
(* moved_count the number of files that left their place.                  *)
C8_SortFailureIsolation ==
    /\ SortRunning =>
          /\ Len(Attempts) = frame.i
          /\ \A k \in 1..Len(Attempts) :
                Attempts[k].src = Join(frame.files_to_move_info[k].root,
                                       frame.files_to_move_info[k].name)
          /\ frame.moved_count = Len(Moves)
          /\ frame.moved_count + frame.skipped_count = frame.i
          /\ ENABLED (SortStep("none") \/ SortReturn)
    /\ SortReturned =>
          /\ Len(Attempts) = Len(ret.matched)
          /\ \A k \in 1..Len(Attempts) :
                Attempts[k].src = Join(ret.matched[k].root, ret.matched[k].name)
          /\ ret.moved_count = Len(Moves)
          /\ ret.moved_count = Cardinality(DOMAIN pre.files \ DOMAIN files)
          /\ ret.moved_count + ret.skipped_count = Len(ret.matched)

(* A call returned in which a move failed and a later file was moved.      *)
C8_Witness ==
    /\ SortReturned
    /\ \E j, k \in 1..Len(Attempts) :
          j < k /\ Attempts[j].kind = "skip" /\ Attempts[k].kind = "move"

---------------------------------------------------------------------------
(* Properties of find_duplicates and delete_empty_folders.                 *)

Removals == SelectSeq(hist, LAMBDA h : h.kind \in {"remove", "rmdir"})
LogLines(log_messages, kind) == SelectSeq(log_messages, LAMBDA m : m.kind = kind)
Paths(seq) == {seq[k].path : k \in 1..Len(seq)}

DupsCalled == pre.call.op = "find_duplicates"
DupsReturned == pc = "idle" /\ DupsCalled
PruneCalled == pre.call.op = "delete_empty_folders"
PruneReturned == pc = "idle" /\ PruneCalled

(* C2: from the start of a find_duplicates or delete_empty_folders call    *)
(* with dry_run=True to its return, the files (with their contents) and    *)
(* the directories are those the call found, and nothing is removed.       *)
C2_DryRunChangesNothing ==
    ((DupsCalled \/ PruneCalled) /\ pre.call.dry_run) =>
        /\ files = pre.files
        /\ dirs = pre.dirs
        /\ Removals = <<>>

(* A dry run returned that logged a duplicate, or an empty folder.         *)
C2_Witness ==
    \/ /\ DupsReturned /\ pre.call.dry_run
       /\ ret.found_count >= 1
       /\ LogLines(ret.log_messages, "duplicate") # <<>>
    \/ /\ PruneReturned /\ pre.call.dry_run
       /\ LogLines(ret.log_messages, "found") # <<>>

(* C3 (as claimed): a dry run of either operation returns deleted_count 0. *)
C3_DryRunDeletedCountZero ==
    ((DupsReturned \/ PruneReturned) /\ pre.call.dry_run) => ret.deleted_count = 0

(* C3 (amended): a dry run of find_duplicates returns deleted_count = 0; a *)
(* dry run of delete_empty_folders returns as deleted_count the number of  *)
(* empty folders it found and logged: the empty directories below          *)
(* target_dir, less those it could not list; it removes none of them.      *)
C3_DryRunCounts ==
    /\ (DupsReturned /\ pre.call.dry_run) => ret.deleted_count = 0
    /\ (PruneReturned /\ pre.call.dry_run) =>
          LET found == LogLines(ret.log_messages, "found")
              empty == {d \in DirsUnder(pre.dirs, pre.call.target_dir) :
                           Entries(pre.dirs, pre.files, d) = {}}
          IN  /\ ret.deleted_count = Len(found)
              /\ Len(found) = Cardinality(Paths(found))
              /\ Paths(found) = empty \ Paths(LogLines(ret.log_messages, "error"))
              /\ Paths(found) \subseteq dirs

(* A dry run of delete_empty_folders returned a count that is not 0.       *)
C3_Witness ==
    /\ PruneReturned /\ pre.call.dry_run
    /\ ret.deleted_count >= 2

NoPruneError == LogLines(ret.log_messages, "error") = <<>>

(* C9: when delete_empty_folders(target_dir, dry_run=False) returns with   *)
(* no error logged, every directory below target_dir has an entry; it      *)
(* removed no directory before one of its subdirectories; deleted_count is *)
(* the number of directories removed; and on the tree s/e (e empty, s      *)
(* holding only e) it removed e, then s, and returned 2.                   *)
C9_NoEmptyFolderLeft ==
    (PruneReturned /\ ~pre.call.dry_run) =>
        /\ NoPruneError =>
              \A d \in DirsUnder(dirs, pre.call.target_dir) : Entries(dirs, files, d) # {}
        /\ \A j, k \in 1..Len(Removals) :
              j < k => ~Under(Removals[j].path, Removals[k].path)
        /\ ret.deleted_count = Len(Removals)
        /\ ret.deleted_count = Cardinality(pre.dirs \ dirs)
        /\ ( /\ NoPruneError
             /\ pre.call.target_dir = Top
             /\ DirsUnder(pre.dirs, Top) = {Dir_s, Dir_e}
             /\ FilesUnder(pre.files, Dir_s) = {} )
           => /\ ret.deleted_count = 2
              /\ Removals[1].path = Dir_e
              /\ Removals[2].path = Dir_s

(* The pass on s/e returned: both directories are gone.                    *)
C9_Witness ==
    /\ PruneReturned /\ ~pre.call.dry_run
    /\ NoPruneError
    /\ pre.call.target_dir = Top
    /\ DirsUnder(pre.dirs, Top) = {Dir_s, Dir_e}
    /\ ret.deleted_count = 2
    /\ dirs = {Top}

(* C10: whatever delete_empty_folders removed so far was a directory other *)
(* than target_dir that had no entry when it was removed; target_dir is    *)
(* still there and every file is still there, unchanged.                   *)
C10_OnlyEmptyNonRootFoldersRemoved ==
    PruneCalled =>
        /\ \A k \in 1..Len(Removals) :
              /\ Removals[k].kind = "rmdir"
              /\ Removals[k].path \in pre.dirs
              /\ Removals[k].path # pre.call.target_dir
              /\ Removals[k].entries = {}
        /\ pre.dirs \ dirs = Paths(Removals)
        /\ pre.call.target_dir \in dirs
        /\ files = pre.files

(* A real run returned that left target_dir empty, and in place.           *)
C10_Witness ==
    /\ PruneReturned /\ ~pre.call.dry_run
    /\ Removals # <<>>
    /\ Entries(dirs, files, pre.call.target_dir) = {}
    /\ pre.call.target_dir \in dirs

---------------------------------------------------------------------------
(* Properties of the duplicate index.                                      *)

(* The reference files a find_duplicates call indexed, in walk order.      *)
IndexedInWalkOrder ==
    SelectSeq(WalkedFiles(WalkTopDown(pre.dirs, pre.files, pre.call.reference_dir,
                                      scandir_rev)),
              LAMBDA e : Join(e.root, e.name) \in ret.indexed)

(* C20 (as claimed): every 'Duplicate found' line names the first file in  *)
(* walk order, among the reference files read, that has the digest of the  *)
(* check file.                                                             *)
C20_FirstSeenReferenceWins ==
    DupsReturned =>
        \A k \in 1..Len(LogLines(ret.log_messages, "duplicate")) :
            LET line == LogLines(ret.log_messages, "duplicate")[k]
                same == SelectSeq(IndexedInWalkOrder,
                           LAMBDA e : MD5(pre.files[Join(e.root, e.name)].content)
                                        = MD5(pre.files[line.path].content))
            IN  same # <<>> /\ line.matches = same[1].name

---------------------------------------------------------------------------
(* Properties of _get_unique_filename.                                     *)

UniqueReturned == pc = "idle" /\ pre.call.op = "_get_unique_filename"

(* stem(k)ext.                                                             *)
Numbered(stem, k, ext) == stem \o <<"(">> \o IntToStr(k) \o <<")">> \o ext

(* C11: _get_unique_filename(dir, name) returns name when dir/name does    *)
(* not exist, and otherwise stem(k)ext for the smallest k >= 1 whose name  *)
(* does not exist in dir; the name returned does not exist in dir; it is   *)
(* the last name probed, and with n entries in dir at most n + 1 names are *)
(* probed; the call changes nothing.                                       *)
C11_UniqueNameIsSmallestFree ==
    UniqueReturned =>
        LET dir == pre.call.destination_folder
            name == pre.call.original_filename
            stem == SplitExt(name)[1]
            ext == SplitExt(name)[2]
            n == Cardinality(Entries(dirs, files, dir))
            taken(x) == Join(dir, x) \in dirs \cup DOMAIN files
        IN  /\ ~taken(name) => ret.new_filename = name
            /\ taken(name) =>
                  \E k \in 1..(n + 1) :
                      /\ ret.new_filename = Numbered(stem, k, ext)
                      /\ \A j \in 1..(k - 1) : taken(Numbered(stem, j, ext))
            /\ ~taken(ret.new_filename)
            /\ hist[Len(hist)].name = ret.new_filename
            /\ Len(hist) <= n + 1
            /\ files = pre.files /\ dirs = pre.dirs

(* a.jpg was resolved in a folder holding a.jpg, a(1).jpg and the          *)
(* directory a(2).jpg: the answer is a(3).jpg, after four probes.          *)
C11_Witness ==
    /\ UniqueReturned
    /\ pre.call.original_filename = Name_a_jpg
    /\ Join(pre.call.destination_folder, Name_a1_jpg) \in DOMAIN files
    /\ Dir_a2_jpg \in dirs
    /\ ret.new_filename = <<"a", "(", "3", ")", ".", "j", "p", "g">>
    /\ Len(hist) = 4

---------------------------------------------------------------------------
(* Properties of scan_extensions.                                          *)

ScanReturned == pc = "idle" /\ pre.call.op = "scan_extensions"

(* name = stem "." x, with x free of dots and not empty and a stem that is *)
(* not made of dots only: the name has the extension x.                    *)
HasExtension(name, x) ==
    /\ x # <<>>
    /\ \A i \in 1..Len(x) : x[i] # "."
    /\ Len(name) > Len(x) + 1
    /\ SubSeq(name, Len(name) - Len(x) + 1, Len(name)) = x
    /\ name[Len(name) - Len(x)] = "."
    /\ \E j \in 1..(Len(name) - Len(x) - 1) : name[j] # "."

Extensions(name) ==
    {SubSeq(name, i, Len(name)) : i \in 2..Len(name)}

---------------------------------------------------------------------------
(* Properties of extract_gif_frames.                                       *)

Opens == SelectSeq(hist, LAMBDA h : h.kind = "open")
Writes == SelectSeq(hist, LAMBDA h : h.kind = "write")
Errors == SelectSeq(hist, LAMBDA h : h.kind = "error")
Progress == SelectSeq(hist, LAMBDA h : h.kind = "progress")

GifCalled == pre.call.op = "extract_gif_frames"
GifReturned == pc = "idle" /\ GifCalled /\ ~ret.raised

(* <stem>_frame_<index in four digits>.png, for an index below 10.         *)
FrameName(stem, index) ==
    stem \o <<"_", "f", "r", "a", "m", "e", "_", "0", "0", "0">>
         \o <<Digit[index + 1]>> \o <<".", "p", "n", "g">>

(* C13: when extract_gif_frames returns from a single-file call on an      *)
(* image of k frames that decodes, no write having been refused and the    *)
(* folder <stem> being one that can be made, it returns k; it wrote k      *)
(* files, the j-th being output_base_directory/<stem>/<stem>_frame_<j-1 in *)
(* four digits>.png in mode RGBA, and no other file; these files are there *)
(* and nothing was logged as an error, the end of the frames included.     *)
C13_SingleFileWritesEveryFrame ==
    ( /\ GifReturned
      /\ pre.call.is_single_file
      /\ Decodes(pre.files[pre.call.input_path].content)
      /\ faults = 0
      /\ ~MakeDirsRaises(pre.dirs, pre.files,
                         Join(pre.call.output_base_directory,
                              SplitExt(BaseName(pre.call.input_path))[1])) )
    => LET k == Len(pre.files[pre.call.input_path].content.modes)
           stem == SplitExt(BaseName(pre.call.input_path))[1]
           folder == Join(pre.call.output_base_directory, stem)
       IN  /\ ret.total_frames_extracted = k
           /\ Len(Writes) = k
           /\ \A j \in 1..k :
                 /\ Writes[j].path = Join(folder, FrameName(stem, j - 1))
                 /\ Writes[j].image.modes = <<"RGBA">>
                 /\ Writes[j].path \in DOMAIN files
                 /\ files[Writes[j].path].content.modes = <<"RGBA">>
           /\ DOMAIN files \ DOMAIN pre.files \subseteq Paths(Writes)
           /\ \A p \in DOMAIN pre.files \ Paths(Writes) :
                 p \in DOMAIN files /\ files[p] = pre.files[p]
           /\ Errors = <<>>

(* A single-file call on s/a.GIF, of two frames (a palette frame, then a   *)
(* frame with an alpha channel), returned 2.                               *)
C13_Witness ==
    /\ GifReturned
    /\ pre.call.is_single_file
    /\ pre.files[pre.call.input_path].content.modes = <<"P", "RGBA">>
    /\ ret.total_frames_extracted = 2
    /\ Len(Writes) = 2
    /\ faults = 0

(* C14 (as claimed): a call in directory mode on an existing directory     *)
(* returns normally, with the number of frames of the .gif files that      *)
(* decode below that directory when none of them fails.                    *)
C14_DirectoryModeExtractsAll ==
    ( /\ GifCalled
      /\ pc = "idle"
      /\ ~pre.call.is_single_file
      /\ IsDir(pre.dirs, pre.call.input_path) )
    => /\ ~ret.raised
       /\ (faults = 0 /\ Errors = <<>>) =>
             ret.total_frames_extracted = Len(Writes)

---------------------------------------------------------------------------
(* Properties of batch_process_images.                                     *)

BatchCalled == pre.call.op = "batch_process_images"
BatchRunning == pc = "batch_process_images"
BatchReturned == pc = "idle" /\ BatchCalled /\ ~ret.raised

(* What a call that raised on its precondition must have left.             *)
NothingDone ==
    /\ pc = "idle"
    /\ ret.raised
    /\ hist = <<>>
    /\ files = pre.files
    /\ dirs = pre.dirs

(* C15: batch_process_images called with a source or a destination that is *)
(* not an existing directory, and extract_gif_frames called in single-file *)
(* mode with a path that is not an existing regular file named *.gif,      *)
(* raise; no file was opened or written, no directory made and no progress *)
(* event emitted.                                                          *)
C15_PreconditionFailsFast ==
    /\ ( /\ BatchCalled
         /\ \/ pre.call.source_dir \notin pre.dirs
            \/ pre.call.dest_dir \notin pre.dirs )
       => NothingDone
    /\ ( /\ GifCalled
         /\ pre.call.is_single_file
         /\ \/ pre.call.input_path \notin DOMAIN pre.files
            \/ Lower(SubSeq(BaseName(pre.call.input_path),
                            Len(BaseName(pre.call.input_path)) - 3,
                            Len(BaseName(pre.call.input_path)))) # <<".", "g", "i", "f">> )
       => NothingDone

(* A batch call raised on a destination that does not exist, the source    *)
(* holding an image; or a single-file call raised on s/a.png, a file.      *)
C15_Witness ==
    \/ /\ BatchCalled /\ pc = "idle" /\ ret.raised
       /\ pre.call.source_dir \in pre.dirs
       /\ pre.call.dest_dir \notin pre.dirs
       /\ \E p \in FilesUnder(pre.files, pre.call.source_dir) : Decodes(pre.files[p].content)
    \/ /\ GifCalled /\ pc = "idle" /\ ret.raised
       /\ pre.call.is_single_file
       /\ pre.call.input_path = Join(Dir_s, Name_a_png)
       /\ pre.call.input_path \in DOMAIN pre.files

(* C16 (as claimed): batch_process_images called with percentage <= 0      *)
(* raises; no file was opened or written and no progress event emitted.    *)
C16_NonPositiveScaleRaises ==
    (BatchCalled /\ pre.call.percentage.num <= 0) => NothingDone

Floor(x, percentage) == (x * percentage.num) \div percentage.den

(* The image a batch call opened under this name (the last time it did).   *)
OpenedAs(filename) ==
    LET opens == SelectSeq(Opens, LAMBDA h : BaseName(h.path) = filename)
    IN  opens[Len(opens)].image

OpaqueFormats == {Str_jpeg}

(* C18 (as claimed): when a batch call to a format without transparency    *)
(* returns, every listed file that decoded to an image with an alpha       *)
(* channel or a palette, and whose scaled size is not empty, has an output *)
(* in a plain colour model.                                                *)
C18_AlphaInputIsFlattened ==
    (BatchReturned /\ pre.call.output_format \in OpaqueFormats) =>
        \A k \in 1..Len(ret.image_files) :
            LET img == OpenedAs(ret.image_files[k])
            IN  ( /\ Decodes(img)
                  /\ img.modes[1] \in AlphaModes
                  /\ Floor(img.size[1], pre.call.percentage) >= 1
                  /\ Floor(img.size[2], pre.call.percentage) >= 1 )
                => \E j \in 1..Len(Writes) :
                      /\ Writes[j].name = ret.image_files[k]
                      /\ Writes[j].image.modes[1] \in PlainModes

(* The outcome of each listed file, in order: an output or an error.       *)
Outcomes == SelectSeq(hist, LAMBDA h : h.kind \in {"write", "error"})

(* C19: a batch call whose directories exist does not raise; while it      *)
(* runs, the files listed so far were each opened once, in listing order,  *)
(* whatever failed, and processed_count is the number of outputs written;  *)
(* on return every listed file has its outcome, an output or an error, and *)
(* the count returned is the number of outputs written, between 0 and the  *)
(* number of listed files.                                                 *)
C19_BatchFailureIsolation ==
    /\ (BatchCalled /\ pc = "idle"
           /\ pre.call.source_dir \in pre.dirs /\ pre.call.dest_dir \in pre.dirs)
       => ~ret.raised
    /\ BatchRunning =>
          /\ Len(Opens) = frame.i
          /\ Len(Outcomes) = frame.i
          /\ \A k \in 1..frame.i :
                /\ BaseName(Opens[k].path) = frame.image_files[k]
                /\ Outcomes[k].name = frame.image_files[k]
          /\ frame.processed_count = Len(Writes)
    /\ BatchReturned =>
          /\ Len(Opens) = Len(ret.image_files)
          /\ Len(Outcomes) = Len(ret.image_files)
          /\ \A k \in 1..Len(ret.image_files) :
                /\ BaseName(Opens[k].path) = ret.image_files[k]
                /\ Outcomes[k].name = ret.image_files[k]
          /\ ret.processed_count = Len(Writes)
          /\ ret.processed_count >= 0
          /\ ret.processed_count <= Len(ret.image_files)
          /\ \A j \in 1..Len(Writes) : Writes[j].path \in DOMAIN files

(* A call returned 1 after a file that did not decode and, later, a file   *)
(* that was written.                                                       *)
C19_Witness ==
    /\ BatchReturned
    /\ ret.processed_count = 1
    /\ \E j, k \in 1..Len(Outcomes) :
          /\ j < k
          /\ Outcomes[j].kind = "error"
          /\ ~Decodes(Opens[j].image)
          /\ Outcomes[k].kind = "write"


---------------------------------------------------------------------------
(* Properties of the check phase of find_duplicates.                       *)

Examined == SelectSeq(hist, LAMBDA h : h.kind \in {"read", "unread"})

(* The position in a log of the line of this kind about this path, 0 when  *)
(* there is none.                                                          *)
LinePosition(log_messages, kind, path) ==
    LET at == {k \in 1..Len(log_messages) :
                  log_messages[k].kind = kind /\ log_messages[k].path = path}
    IN  IF at = {} THEN 0 ELSE CHOOSE k \in at : \A j \in at : k <= j

(* C21: when find_duplicates(dry_run=False) returns, every file of the     *)
(* check walk was examined, in order, whatever removal failed before it; a *)
(* duplicate whose removal failed is logged as found and as an error, is   *)
(* still there and is not counted as deleted; deleted_count <= found_count *)
(* and deleted_count is the number of files removed, each removed once and *)
(* each with its "Duplicate found" line before its "Deleted" line.         *)
C21_DeleteFailureIsolation ==
    (DupsReturned /\ ~pre.call.dry_run) =>
        LET walk == WalkedFiles(WalkTopDown(pre.dirs, pre.files,
                                            pre.call.check_dir, scandir_rev))
            log == ret.log_messages
            reported == Paths(LogLines(log, "duplicate"))
            deleted == LogLines(log, "deleted")
        IN  /\ Len(Examined) = Len(walk)
            /\ \A k \in 1..Len(walk) :
                  Examined[k].path = Join(walk[k].root, walk[k].name)
            /\ ret.deleted_count <= ret.found_count
            /\ ret.deleted_count = Len(Removals)
            /\ ret.deleted_count = Cardinality(DOMAIN pre.files \ DOMAIN files)
            /\ Paths(Removals) = DOMAIN pre.files \ DOMAIN files
            /\ ret.deleted_count = Len(deleted)
            /\ Paths(deleted) = Paths(Removals)
            /\ \A p \in Paths(deleted) :
                  /\ LinePosition(log, "duplicate", p) > 0
                  /\ LinePosition(log, "duplicate", p) < LinePosition(log, "deleted", p)
            /\ \A p \in reported \ Paths(deleted) :
                  /\ p \in DOMAIN files
                  /\ LinePosition(log, "duplicate", p) < LinePosition(log, "check_error", p)
            /\ ret.found_count - ret.deleted_count =
                  Cardinality(reported \ Paths(deleted))

(* A real run returned in which the removal of a duplicate failed and a    *)
(* file examined after it was removed.                                     *)
C21_Witness ==
    /\ DupsReturned /\ ~pre.call.dry_run
    /\ ret.deleted_count < ret.found_count
    /\ \E j, k \in 1..Len(ret.log_messages) :
          /\ j < k
          /\ ret.log_messages[j].kind = "check_error"
          /\ ret.log_messages[j].path \in Paths(LogLines(ret.log_messages, "duplicate"))
          /\ ret.log_messages[k].kind = "deleted"

DupsRunning == pc = "find_duplicates"

(* The index that lines 121-130 build from the tree the call found.        *)
IndexOfCall(indexed) ==
    IndexReference(WalkedFiles(WalkTopDown(pre.dirs, pre.files,
                                           pre.call.reference_dir, scandir_rev)),
                   pre.files,
                   FilesUnder(pre.files, pre.call.reference_dir) \ indexed,
                   [reference_hashes |-> <<>>, log_messages |-> <<>>]).reference_hashes

(* C22: from the first state of the check phase of find_duplicates, before *)
(* any check file was read or removed, to the return, the index holds the  *)
(* digest of every readable file the reference tree had at the call and is *)
(* the same; whatever was removed since, every check file read whose       *)
(* digest is in the index is reported, once.                               *)
C22_IndexCompleteAndFrozen ==
    /\ DupsRunning =>
          LET read == Paths(SelectSeq(hist, LAMBDA h : h.kind = "read"))
              reported == LogLines(frame.log_messages, "duplicate")
          IN  /\ DOMAIN frame.reference_hashes =
                    {MD5(pre.files[q].content) : q \in frame.indexed}
              /\ frame.reference_hashes = IndexOfCall(frame.indexed)
              /\ frame.i = 0 => (hist = <<>> /\ files = pre.files)
              /\ Paths(reported) =
                    {p \in read : MD5(pre.files[p].content) \in DOMAIN frame.reference_hashes}
              /\ Len(reported) = Cardinality(Paths(reported))
    /\ DupsReturned =>
          LET read == Paths(SelectSeq(hist, LAMBDA h : h.kind = "read"))
          IN  /\ ret.reference_hashes = IndexOfCall(ret.indexed)
              /\ Paths(LogLines(ret.log_messages, "duplicate")) =
                    {p \in read : MD5(pre.files[p].content) \in DOMAIN ret.reference_hashes}

(* A real run returned that reported and removed two check files of the    *)
(* same content, and left no reference file with that content.             *)
C22_Witness ==
    /\ DupsReturned /\ ~pre.call.dry_run
    /\ \E p, q \in Paths(LogLines(ret.log_messages, "deleted")) :
          /\ p # q
          /\ pre.files[p].content = pre.files[q].content
          /\ p \in ret.indexed
          /\ \A r \in ret.indexed :
                pre.files[r].content = pre.files[p].content => r \notin DOMAIN files

---------------------------------------------------------------------------
(* Properties of the count of delete_empty_folders.                        *)

(* The directories below target_dir that had no entry when the call began. *)
EmptyAtCall ==
    {d \in DirsUnder(pre.dirs, pre.call.target_dir) :
        Entries(pre.dirs, pre.files, d) = {}}

---------------------------------------------------------------------------
(* Properties of the progress events of sort_files and of                  *)
(* batch_process_images.                                                   *)

(* The events that begin the handling of an item: its move, done or        *)
(* failed, in sort_files; its opening in batch_process_images.             *)
Begun(seq) == SelectSeq(seq, LAMBDA h : h.kind \in {"move", "skip", "open"})
ProgressIn(seq) == SelectSeq(seq, LAMBDA h : h.kind = "progress")

(* The names of the items of the running call, in the order of its loop.   *)
ItemNames ==
    IF SortRunning
    THEN [k \in 1..Len(frame.files_to_move_info) |-> frame.files_to_move_info[k].name]
    ELSE frame.image_files

(* C24: while sort_files or batch_process_images runs with a progress      *)
(* sink, after i turns of the loop there are i progress events; the k-th   *)
(* is (k, total, name of item k), total being the number of items; it      *)
(* comes after everything done for the items before k, and the move or the *)
(* opening of item k, and its output or its error, come after it and       *)
(* before the event of item k+1; the outcomes counted are those of the     *)
(* items whose event was emitted.  Without a sink there is no event.       *)
C24_OneProgressEventPerItem ==
    (SortRunning \/ BatchRunning) =>
        IF ~frame.progress_callback THEN Progress = <<>>
        ELSE /\ Len(Progress) = frame.i
             /\ \A k \in 1..Len(Progress) :
                   /\ Progress[k].current = k
                   /\ Progress[k].total = Len(ItemNames)
                   /\ Progress[k].label = ItemNames[k]
             /\ Len(Begun(hist)) = frame.i
             /\ \A p \in 1..Len(hist) :
                   LET emitted == Len(ProgressIn(SubSeq(hist, 1, p - 1)))
                       begun == Len(Begun(SubSeq(hist, 1, p - 1)))
                   IN  CASE hist[p].kind = "progress" ->
                                /\ begun = hist[p].current - 1
                                /\ emitted = hist[p].current - 1
                                /\ p < Len(hist)
                                /\ hist[p + 1].kind \in {"move", "skip", "copy", "open"}
                         [] hist[p].kind \in {"move", "skip", "open"} ->
                                emitted = begun + 1
                         [] hist[p].kind = "copy" ->
                                emitted = begun + 1
                         [] OTHER -> emitted = begun
             /\ SortRunning => frame.moved_count + frame.skipped_count = Len(Progress)
             /\ BatchRunning => Len(Outcomes) = Len(Progress)

(* With a sink, sort_files has gone through two files, the first of which  *)
(* it could not move; or batch_process_images through two, the first of    *)
(* which did not decode.                                                   *)
C24_Witness ==
    /\ SortRunning \/ BatchRunning
    /\ frame.progress_callback
    /\ Len(Progress) = 2
    /\ Progress[2].total = 2
    /\ \/ SortRunning /\ Attempts[1].kind = "skip" /\ Attempts[2].kind = "move"
       \/ BatchRunning /\ Outcomes[1].kind = "error" /\ Outcomes[2].kind = "write"

---------------------------------------------------------------------------
(* Properties of the classification by extension.                          *)

LastDot(name) ==
    LET dots == {i \in 1..Len(name) : name[i] = "."}
    IN  IF dots = {} THEN 0 ELSE CHOOSE i \in dots : \A j \in dots : j <= i

AfterLastDot(name) == SubSeq(name, LastDot(name) + 1, Len(name))

(* The claim's rule: no extension when the name holds no "." or nothing    *)
(* follows its last ".".                                                   *)
NoSuffixClaimed(name) == LastDot(name) = 0 \/ LastDot(name) = Len(name)

(* The rule of os.path.splitext: moreover the last "." does not count when *)
(* only "." precede it.                                                    *)
NoSuffix(name) ==
    \/ NoSuffixClaimed(name)
    \/ \A j \in 1..(LastDot(name) - 1) : name[j] = "."

(* What the scan returned and what the sort selected, against a rule.      *)
ClassifiedBy(no_suffix(_)) ==
    /\ (pc = "idle" /\ pre.call.op = "scan_extensions") =>
          {ret.extensions[k] : k \in 1..Len(ret.extensions)} =
              {IF no_suffix(BaseName(p)) THEN Str_no_extension
               ELSE Lower(AfterLastDot(BaseName(p))) :
                   p \in FilesUnder(files, pre.call.source_dir)}
    /\ SortRunning =>
          {Join(frame.files_to_move_info[k].root, frame.files_to_move_info[k].name) :
              k \in 1..Len(frame.files_to_move_info)} =
              {p \in FilesUnder(pre.files, pre.call.source_dir) :
                  /\ Parent(p) # frame.destination_folder
                  /\ IF pre.call.selected_ext = Str_no_extension
                     THEN no_suffix(BaseName(p))
                     ELSE /\ ~no_suffix(BaseName(p))
                          /\ Lower(AfterLastDot(BaseName(p))) = pre.call.selected_ext}

(* C25 (as claimed): scan_extensions returns, and sort_files selects by,   *)
(* the lower-cased text after the last "." of each name, a name being      *)
(* without extension exactly when it holds no "." or ends with its last    *)
(* ".".                                                                    *)
C25_ExtensionIsAfterLastDot == ClassifiedBy(NoSuffixClaimed)

(* C25 (amended): the same, a name being without extension exactly when it *)
(* holds no ".", ends with its last ".", or has nothing but "." before its *)
(* last "." (.jpg has no extension).                                       *)
C25_ExtensionIsAfterLastDotUnlessLeading == ClassifiedBy(NoSuffix)

(* A scan returned jpg and no_extension for a.b.jpg and .jpg; or a sort by *)
(* no_extension selected .jpg and passed over a.b.jpg.                     *)
C25_Witness ==
    /\ pre.call.op \in {"scan_extensions", "sort_files"}
    /\ Join(Top, Name_dot_jpg) \in DOMAIN pre.files
    /\ Join(Top, Name_a_b_jpg) \in DOMAIN pre.files
    /\ pre.call.source_dir = Top
    /\ \/ /\ pc = "idle" /\ pre.call.op = "scan_extensions"
          /\ ret.extensions = <<Str_jpg, Str_no_extension>>
       \/ /\ SortRunning /\ pre.call.selected_ext = Str_no_extension
          /\ Len(frame.files_to_move_info) = 1
          /\ frame.files_to_move_info[1].name = Name_dot_jpg

(* The destination folders of the values a scan returned.                  *)
DestinationFolders(source_dir, extensions) ==
    {Join(source_dir, DestinationFolderName(extensions[k])) : k \in 1..Len(extensions)}

(* C28 (as claimed): when sort_files(source_dir, e) starts after           *)
(* scan_extensions(source_dir) returned e among its values, the files it   *)
(* selects among those under source_dir that are in no destination folder  *)
(* are exactly those from whose name the scan derived e.                   *)
C28_SorterSelectsWhatScannerNamed ==
    (SortRunning /\ frame.i = 0 /\ ret # NoCall /\ ret.call.op = "scan_extensions") =>
        LET selected == {Join(frame.files_to_move_info[k].root,
                              frame.files_to_move_info[k].name) :
                            k \in 1..Len(frame.files_to_move_info)}
            folders == DestinationFolders(pre.call.source_dir, ret.extensions)
        IN  \A f \in FilesUnder(pre.files, pre.call.source_dir) :
                (\A d \in folders : ~Under(d, f)) =>
                    (f \in selected <=>
                        ScannedExtension(BaseName(f)) = pre.call.selected_ext)

---------------------------------------------------------------------------
(* Properties of the outputs of batch_process_images.                      *)

(* The name without its last suffix, leading dots apart.                   *)
Stem(name) ==
    IF NoSuffix(name) /\ LastDot(name) # Len(name) THEN name
    ELSE SubSeq(name, 1, LastDot(name) - 1)

(* dest_dir/<stem of the input>.<target format>.                           *)
OutputOf(name) ==
    Join(pre.call.dest_dir, Stem(name) \o <<".">> \o Lower(pre.call.output_format))

(* C26: when a batch call returns, every output was written to             *)
(* dest_dir/<stem of its input>.<target format>, whatever was there; a     *)
(* path to which the last save of the call succeeded holds the image of    *)
(* that save, so the later of two inputs of one stem replaces the output   *)
(* of the earlier; every save that succeeded is counted, so the count is   *)
(* at least the number of distinct output files.                           *)
C26_LaterInputReplacesOutput ==
    BatchReturned =>
        /\ \A j \in 1..Len(Writes) : Writes[j].path = OutputOf(Writes[j].name)
        /\ \A k \in 1..Len(Outcomes) :
              ( /\ Outcomes[k].kind = "write"
                /\ \A l \in (k + 1)..Len(Outcomes) :
                      OutputOf(Outcomes[l].name) # OutputOf(Outcomes[k].name) )
              => /\ Outcomes[k].path \in DOMAIN files
                 /\ files[Outcomes[k].path].content = Outcomes[k].image
        /\ ret.processed_count = Len(Writes)
        /\ ret.processed_count >= Cardinality(Paths(Writes))

(* A call returned 2 after it wrote a.png and a.GIF, in this order or the  *)
(* other, to one output file, which holds the second image and not the     *)
(* first.                                                                  *)
C26_Witness ==
    /\ BatchReturned
    /\ pre.call.source_dir # pre.call.dest_dir
    /\ ret.processed_count = 2
    /\ Cardinality(Paths(Writes)) = 1
    /\ Writes[1].name # Writes[2].name
    /\ Writes[1].image # Writes[2].image
    /\ files[Writes[2].path].content = Writes[2].image
    /\ Cardinality(DOMAIN files \ DOMAIN pre.files) = 1

(* C30 (as claimed): during and after a batch call that passed the         *)
(* precondition check, every file that source_dir held when the call began *)
(* is there with the content it had.                                       *)
C30_SourceFilesUntouched ==
    (BatchCalled /\ (BatchRunning \/ BatchReturned)) =>
        \A p \in DOMAIN pre.files :
            Parent(p) = pre.call.source_dir =>
                p \in DOMAIN files /\ files[p] = pre.files[p]

---------------------------------------------------------------------------
(* Properties of the failures of extract_gif_frames.                       *)

---------------------------------------------------------------------------
(* Properties of two concurrent sort_files invocations.                    *)

ThreadsRunning == pc = "sort_files_threads"
ThreadsReturned == pc = "idle" /\ pre.call.op = "sort_files" /\ ret # NoCall

(* C29 (as claimed): while and after two sort_files invocations with the   *)
(* same arguments run on two threads, no move replaced a file, no file was *)
(* moved twice, and when both have returned source_dir holds as many files *)
(* as before.                                                              *)
C29_NoFileLostByTwoSorts ==
    (ThreadsRunning \/ ThreadsReturned) =>
        /\ \A k \in 1..Len(Moves) : ~Moves[k].replaced
        /\ \A j, k \in 1..Len(Moves) : j # k => Moves[j].src # Moves[k].src
        /\ ThreadsReturned =>
              Cardinality(FilesUnder(files, pre.call.source_dir)) =
                  Cardinality(FilesUnder(pre.files, pre.call.source_dir))

===========================================================================
